---- MODULE Spec2Model ----
(***************************************************************************)
(* A model of the two tools of strands-coder.                              *)
(*                                                                         *)
(* The scheduler (src/strands_coder/tools/scheduler.py): the job           *)
(* collection kept in the AGENT_SCHEDULES repository variable, the seven   *)
(* actions of scheduler() and the two matchers that decide whether a job   *)
(* is due.                                                                 *)
(*                                                                         *)
(* The projects tool (src/strands_coder/tools/projects.py): the GraphQL    *)
(* requests each action of projects() posts and the result it returns,     *)
(* the progress report computed from a fetched project, and the bulk       *)
(* operations.                                                             *)
(*                                                                         *)
(* Conventions.                                                            *)
(*  - A Python str that the code takes apart (a cron expression, an        *)
(*    "owner/repo" name) is a sequence of one-character strings; a str     *)
(*    that is only stored and compared is a TLA+ string.                   *)
(*  - An optional argument is <<>> for None and <<v>> for the value v.     *)
(*  - A Python dict is a function; a key the dict lacks is outside its     *)
(*    DOMAIN.                                                              *)
(*  - Time is in whole seconds since 2024-01-01T00:00:00 UTC (a Monday);   *)
(*    every instant of the model lies in January 2024.                     *)
(*  - A Python exception is the value Raise.                               *)
(*  - What a remote request meets (an answer or a failure) is drawn with   *)
(*    the call, so a helper is a function of its arguments and replies.    *)
(***************************************************************************)
EXTENDS Integers, Sequences, FiniteSets, TLC

VARIABLES
    store,    \* the remote side: the AGENT_SCHEDULES document as json.loads
              \* returns it; for a call of either tool from its first line a
              \* record of that document, the requests posted and the
              \* projects that exist
    now,      \* the wall clock, what datetime.utcnow() returns
    call,     \* the last call of a tool: its action and arguments, and for
              \* a call drawn with its surroundings what its requests meet
    result,   \* what that call returned
    wrote,    \* how many writes or requests that call issued
    running   \* the calls under way: what each has read and not yet written

vars == <<store, now, call, result, wrote, running>>

----------------------------------------------------------------------------
(* Python values *)

None == <<>>

Some(v) == <<v>>

Raise == [raised |-> TRUE]

Ok(v) == [raised |-> FALSE, v |-> v]

\* bool(x) of an optional str argument: None and "" are falsy
TruthyStr(o) == o # None /\ o[1] # ""

\* bool(x) of an optional character sequence: None and the empty str are falsy
TruthySeq(o) == o # None /\ o[1] # <<>>

\* bool(x) of an optional int argument: None and 0 are falsy
TruthyInt(o) == o # None /\ o[1] # 0

\* dict.get(key): None when the key is absent
DictGet(d, k) == IF k \in DOMAIN d THEN Some(d[k]) ELSE None

\* dict.get(key, default)
DictGetOr(d, k, default) == IF k \in DOMAIN d THEN d[k] ELSE default

\* d[k] = v on a copy of d
DictSet(d, k, v) == [x \in DOMAIN d \cup {k} |-> IF x = k THEN v ELSE d[x]]

\* del d[k] on a copy of d
DictDel(d, k) == [x \in DOMAIN d \ {k} |-> d[x]]

EmptyDict == [x \in {} |-> x]

----------------------------------------------------------------------------
(* str operations the cron code uses *)

Digits == {"0", "1", "2", "3", "4", "5", "6", "7", "8", "9"}

DigitValue(c) ==
    CASE c = "0" -> 0 [] c = "1" -> 1 [] c = "2" -> 2 [] c = "3" -> 3
      [] c = "4" -> 4 [] c = "5" -> 5 [] c = "6" -> 6 [] c = "7" -> 7
      [] c = "8" -> 8 [] c = "9" -> 9

RECURSIVE DigitsValue(_)
DigitsValue(s) ==
    IF s = <<>> THEN 0
    ELSE 10 * DigitsValue(SubSeq(s, 1, Len(s) - 1)) + DigitValue(s[Len(s)])

\* int(s): an optional sign and one or more decimal digits, ValueError otherwise
PyInt(s) ==
    LET signed == s # <<>> /\ s[1] \in {"+", "-"}
        body   == IF signed THEN Tail(s) ELSE s
    IN  IF body = <<>> \/ \E i \in 1..Len(body) : body[i] \notin Digits
        THEN Raise
        ELSE Ok(IF signed /\ s[1] = "-" THEN 0 - DigitsValue(body)
                ELSE DigitsValue(body))

\* c in s
Contains(s, c) == \E i \in 1..Len(s) : s[i] = c

\* s.split(sep) for a one-character separator: empty pieces are kept
RECURSIVE SplitOn(_, _)
SplitOn(s, sep) ==
    IF ~Contains(s, sep) THEN <<s>>
    ELSE LET i == CHOOSE k \in 1..Len(s) :
                      s[k] = sep /\ \A j \in 1..(k - 1) : s[j] # sep
         IN  <<SubSeq(s, 1, i - 1)>> \o SplitOn(SubSeq(s, i + 1, Len(s)), sep)

\* s.strip().split(): the maximal runs of non-blank characters
RECURSIVE SplitBlank(_)
SplitBlank(s) ==
    IF s = <<>> THEN <<>>
    ELSE IF s[1] = " " THEN SplitBlank(Tail(s))
    ELSE LET stop == IF Contains(s, " ")
                     THEN CHOOSE k \in 1..Len(s) :
                              s[k] = " " /\ \A j \in 1..(k - 1) : s[j] # " "
                     ELSE Len(s) + 1
         IN  <<SubSeq(s, 1, stop - 1)>> \o SplitBlank(SubSeq(s, stop, Len(s)))

\* s.startswith("*/")
StartsWithStarSlash(s) == Len(s) >= 2 /\ s[1] = "*" /\ s[2] = "/"

\* PyDivides with the operands the wrong way round (step % value == 0)
PyDividesSwapped(a, b) == a # 0 /\ b % a = 0

\* a % b == 0 in Python, for any b but 0 (the sign of b does not matter)
PyDivides(a, b) == a % (IF b < 0 THEN 0 - b ELSE b) = 0

----------------------------------------------------------------------------
(* Cron matching *)

\* _parse_cron: the five fields, ValueError on any other number of fields
_parse_cron(cron_expr) ==
    LET parts == SplitBlank(cron_expr)
    IN  IF Len(parts) # 5 THEN Raise
        ELSE Ok([minute |-> parts[1], hour |-> parts[2],
                 day_of_month |-> parts[3], month |-> parts[4],
                 day_of_week |-> parts[5]])

\* _cron_field_matches: Ok(TRUE), Ok(FALSE), or Raise where the code raises
\* (int() of a non-number, a split into the wrong number of pieces, % 0)
_cron_field_matches(field, value) ==
    IF field = <<"*">> THEN Ok(TRUE)
    ELSE IF StartsWithStarSlash(field) THEN
        LET step == PyInt(SubSeq(field, 3, Len(field)))
        IN  IF step.raised THEN Raise
            ELSE IF step.v = 0 THEN Raise
            ELSE Ok(PyDivides(value, step.v))
    ELSE IF Contains(field, "-") /\ ~Contains(field, "/") THEN
        LET pieces == SplitOn(field, "-")
        IN  IF Len(pieces) # 2 THEN Raise
            ELSE LET start == PyInt(pieces[1])
                     end   == PyInt(pieces[2])
                 IN  IF start.raised THEN Raise
                     ELSE IF start.v > value THEN Ok(FALSE)
                     ELSE IF end.raised THEN Raise
                     ELSE Ok(value <= end.v)
    ELSE IF Contains(field, "-") /\ Contains(field, "/") THEN
        LET halves == SplitOn(field, "/")
        IN  IF Len(halves) # 2 THEN Raise
            ELSE LET pieces == SplitOn(halves[1], "-")
                 IN  IF Len(pieces) # 2 THEN Raise
                     ELSE LET start == PyInt(pieces[1])
                              end   == PyInt(pieces[2])
                              step  == PyInt(halves[2])
                          IN  IF start.raised THEN Raise
                              ELSE IF start.v > value THEN Ok(FALSE)
                              ELSE IF end.raised THEN Raise
                              ELSE IF value > end.v THEN Ok(FALSE)
                              ELSE IF step.raised THEN Raise
                              ELSE IF step.v = 0 THEN Raise
                              ELSE Ok(PyDivides(value - start.v, step.v))
    ELSE IF Contains(field, ",") THEN
        LET items == SplitOn(field, ",")
        IN  IF \E i \in 1..Len(items) : PyInt(items[i]).raised THEN Raise
            ELSE Ok(\E i \in 1..Len(items) : PyInt(items[i]).v = value)
    ELSE
        LET n == PyInt(field)
        IN  IF n.raised THEN Raise ELSE Ok(n.v = value)

----------------------------------------------------------------------------
(* datetime: the components of an instant t, in seconds since                *)
(* 2024-01-01T00:00:00, a Monday; t lies in January 2024                     *)

Minute(t) == (t \div 60) % 60

Hour(t) == (t \div 3600) % 24

Day(t) == (t \div 86400) + 1

Month(t) == 1

\* datetime.weekday(): 0 = Monday ... 6 = Sunday
Weekday(t) == (t \div 86400) % 7

\* Matched that takes an exception for a match
MatchedOrRaised(r) == r.raised \/ r.v

\* a field's answer as _cron_matches reads it: an exception is a non-match
Matched(r) == ~r.raised /\ r.v

\* _cron_matches that matches day_of_week against datetime.weekday() as it is
_cron_matchesPythonWeekday(cron_expr, dt) ==
    LET cron == _parse_cron(cron_expr)
    IN  IF cron.raised THEN FALSE
        ELSE
        LET c == cron.v
        IN  /\ Matched(_cron_field_matches(c.minute, Minute(dt)))
            /\ Matched(_cron_field_matches(c.hour, Hour(dt)))
            /\ Matched(_cron_field_matches(c.day_of_month, Day(dt)))
            /\ Matched(_cron_field_matches(c.month, Month(dt)))
            /\ Matched(_cron_field_matches(c.day_of_week, Weekday(dt)))

\* _cron_matches: every exception of the parse or of a field is a non-match
_cron_matches(cron_expr, dt) ==
    LET cron == _parse_cron(cron_expr)
    IN  IF cron.raised THEN FALSE
        ELSE
        LET c       == cron.v
            minute  == _cron_field_matches(c.minute, Minute(dt))
            hour    == _cron_field_matches(c.hour, Hour(dt))
            dom     == _cron_field_matches(c.day_of_month, Day(dt))
            month   == _cron_field_matches(c.month, Month(dt))
            python_weekday == Weekday(dt)
            cron_weekday   == (python_weekday + 1) % 7
            dow     == _cron_field_matches(c.day_of_week, cron_weekday)
        IN  IF ~Matched(minute) THEN FALSE
            ELSE IF ~Matched(hour) THEN FALSE
            ELSE IF ~Matched(dom) THEN FALSE
            ELSE IF ~Matched(month) THEN FALSE
            ELSE IF ~Matched(dow) THEN FALSE
            ELSE TRUE

----------------------------------------------------------------------------
(* run_at strings.  A run_at string is modelled by what datetime.fromiso-    *)
(* format reads in it: whether it is ISO 8601 at all, the wall-clock time    *)
(* it spells (seconds since 2024-01-01T00:00:00) and its offset suffix       *)
(* ("" for none, "Z", or "+hh:mm").                                          *)

RunAtText(iso, wall, tz) == [iso |-> iso, wall |-> wall, tz |-> tz]

\* run_at.replace("Z", "+00:00")
ReplaceZ(run_at) ==
    IF run_at.tz = "Z" THEN [run_at EXCEPT !.tz = "+00:00"] ELSE run_at

\* datetime.fromisoformat: the wall-clock time and the offset, or ValueError
FromIsoFormat(s) ==
    IF s.iso THEN Ok([wall |-> s.wall, tzinfo |-> s.tz]) ELSE Raise

\* _run_at_matches with the end of the window left out (< 60)
_run_at_matchesStrict(run_at, t) ==
    /\ FromIsoFormat(ReplaceZ(run_at)).raised = FALSE
    /\ (0 - 1) * 60 <= t - run_at.wall
    /\ t - run_at.wall < 60 * 60

\* _run_at_matches.  Both branches of the code end with the wall-clock time
\* the string spells: replace(tzinfo=None) drops the offset, it does not
\* convert.  diff_minutes = seconds / 60, so -1 <= diff_minutes <= 60 is
\* -60 <= seconds <= 3600.
_run_at_matches(run_at, t) ==
    LET run_at_str == ReplaceZ(run_at)
        parsed     == FromIsoFormat(run_at_str)
    IN  IF parsed.raised THEN FALSE
        ELSE
        LET run_at_dt    == IF run_at_str.tz = ""
                            THEN parsed.v.wall
                            ELSE [parsed.v EXCEPT !.tzinfo = ""].wall
            diff_seconds == t - run_at_dt
        IN  (0 - 1) * 60 <= diff_seconds /\ diff_seconds <= 60 * 60

----------------------------------------------------------------------------
(* The variable store *)

DefaultSchedules == [jobs |-> EmptyDict, timezone |-> "UTC"]

\* _get_schedules: the stored document (an absent variable reads as {}), or
\* the default document when the read fails
_get_schedules(doc, rd) == IF rd = "ok" THEN doc ELSE DefaultSchedules

\* schedules.get("jobs", {})
JobsOf(schedules) == DictGetOr(schedules, "jobs", EmptyDict)

\* job.get("enabled", True)
IsEnabled(job) == DictGetOr(job, "enabled", TRUE)

\* bool(job.get(key)) for the keys the code tests for truth
JobHasStr(job, k) == k \in DOMAIN job /\ job[k] # ""

JobHasSeq(job, k) == k \in DOMAIN job /\ job[k] # <<>>

JobOnce(job) == DictGetOr(job, "once", FALSE)

\* what one call leaves behind: the stored document, the returned dict and
\* the number of writes issued
Outcome(doc, res, n) == [store |-> doc, result |-> res, wrote |-> n]

Error(text) == [status |-> "error", text |-> text]

\* _save_schedules followed by the caller's test of result["success"]:
\* wr is "ok", "fail" (a non-success HTTP status) or "raise" (requests raises,
\* which scheduler()'s outer except turns into an error result)
SaveChecked(doc, schedules, wr, success) ==
    CASE wr = "ok"    -> Outcome(schedules, success, 1)
      [] wr = "fail"  -> Outcome(doc, Error("Failed to save"), 1)
      [] wr = "raise" -> Outcome(doc, Error("Error: exception"), 1)

----------------------------------------------------------------------------
(* scheduler(): one operator per action.  Each takes the arguments of the    *)
(* call (a), the stored document (doc) and the outcome of the store read     *)
(* (rd) and write (wr), and gives the Outcome of the call.                   *)

\* action == "list"
ListJobs(a, doc, rd) ==
    LET schedules == _get_schedules(doc, rd)
        jobs      == JobsOf(schedules)
    IN  IF jobs = EmptyDict
        THEN Outcome(doc, [status |-> "success",
                           text |-> "No scheduled jobs found"], 0)
        ELSE Outcome(doc, [status |-> "success", text |-> "Scheduled Jobs",
                           listed |-> jobs], 0)

\* ShouldRun without the test of enabled
ShouldRunEvenDisabled(job, t) ==
    \/ JobHasSeq(job, "cron") /\ _cron_matches(job["cron"], t)
    \/ "run_at" \in DOMAIN job /\ _run_at_matches(job["run_at"], t)

\* the body of check's loop for one job: is the job due
ShouldRun(job, t) ==
    /\ IsEnabled(job)
    /\ \/ JobHasSeq(job, "cron") /\ _cron_matches(job["cron"], t)
       \/ "run_at" \in DOMAIN job /\ _run_at_matches(job["run_at"], t)

\* ShouldRemove that never marks a job
ShouldRemoveNever(job, t) == FALSE

\* ShouldRemove that marks every due job, whatever made it due
ShouldRemoveAnyDue(job, t) == ShouldRun(job, t)

\* ShouldRemove that marks a due once job whichever trigger made it due
ShouldRemoveOnceDue(job, t) == ShouldRun(job, t) /\ JobOnce(job)

\* the body of check's loop for one job: is the job marked for removal
ShouldRemove(job, t) ==
    /\ IsEnabled(job)
    /\ "run_at" \in DOMAIN job /\ _run_at_matches(job["run_at"], t)
    /\ JobOnce(job)

\* DueRecord that reads tools from the job's model key
DueRecordToolsFromModel(jid, job) ==
    [job_id        |-> jid,
     prompt        |-> DictGetOr(job, "prompt", ""),
     system_prompt |-> DictGet(job, "system_prompt"),
     tools         |-> DictGet(job, "model"),
     model         |-> DictGet(job, "model"),
     max_tokens    |-> DictGet(job, "max_tokens"),
     context       |-> DictGet(job, "context"),
     once          |-> JobOnce(job)]

\* the record check appends to jobs_to_run
DueRecord(jid, job) ==
    [job_id        |-> jid,
     prompt        |-> DictGetOr(job, "prompt", ""),
     system_prompt |-> DictGet(job, "system_prompt"),
     tools         |-> DictGet(job, "tools"),
     model         |-> DictGet(job, "model"),
     max_tokens    |-> DictGet(job, "max_tokens"),
     context       |-> DictGet(job, "context"),
     once          |-> JobOnce(job)]

\* CheckJobs that saves the collection whether or not it retired a job
CheckJobsAlwaysWrites(a, doc, t, rd, wr) ==
    LET schedules      == _get_schedules(doc, rd)
        jobs           == JobsOf(schedules)
        due            == {jid \in DOMAIN jobs : ShouldRun(jobs[jid], t)}
        jobs_to_run    == {DueRecord(jid, jobs[jid]) : jid \in due}
        jobs_to_remove == {jid \in DOMAIN jobs : ShouldRemove(jobs[jid], t)}
        kept           == [jid \in DOMAIN jobs \ jobs_to_remove |-> jobs[jid]]
        pruned         == DictSet(schedules, "jobs", kept)
    IN  IF jobs_to_run = {}
        THEN Outcome(pruned, [status |-> "success",
                              text |-> "No jobs scheduled to run", at |-> t,
                              jobs_to_run |-> {}], 1)
        ELSE Outcome(pruned, [status |-> "success", text |-> "Jobs to Run",
                              at |-> t, jobs_to_run |-> jobs_to_run,
                              removed |-> jobs_to_remove], 1)

\* CheckJobs that saves the collection once for every job it retires
CheckJobsWritesPerJob(a, doc, t, rd, wr) ==
    LET schedules      == _get_schedules(doc, rd)
        jobs           == JobsOf(schedules)
        due            == {jid \in DOMAIN jobs : ShouldRun(jobs[jid], t)}
        jobs_to_run    == {DueRecord(jid, jobs[jid]) : jid \in due}
        jobs_to_remove == {jid \in DOMAIN jobs : ShouldRemove(jobs[jid], t)}
        kept           == [jid \in DOMAIN jobs \ jobs_to_remove |-> jobs[jid]]
        pruned         == DictSet(schedules, "jobs", kept)
    IN  IF jobs_to_run = {}
        THEN Outcome(doc, [status |-> "success",
                           text |-> "No jobs scheduled to run", at |-> t,
                           jobs_to_run |-> {}], 0)
        ELSE Outcome(IF wr = "ok" THEN pruned ELSE doc,
                     [status |-> "success", text |-> "Jobs to Run",
                      at |-> t, jobs_to_run |-> jobs_to_run,
                      removed |-> jobs_to_remove],
                     Cardinality(jobs_to_remove))

\* action == "check"; t is datetime.utcnow(), which the text of the result
\* prints (at).  The result of the write is not looked at; only an exception
\* of the write ends the call early.
CheckJobs(a, doc, t, rd, wr) ==
    LET schedules      == _get_schedules(doc, rd)
        jobs           == JobsOf(schedules)
        due            == {jid \in DOMAIN jobs : ShouldRun(jobs[jid], t)}
        jobs_to_run    == {DueRecord(jid, jobs[jid]) : jid \in due}
        jobs_to_remove == {jid \in DOMAIN jobs : ShouldRemove(jobs[jid], t)}
        kept           == [jid \in DOMAIN jobs \ jobs_to_remove |-> jobs[jid]]
        pruned         == DictSet(schedules, "jobs", kept)
        saved          == IF jobs_to_remove = {} THEN doc
                          ELSE IF wr = "ok" THEN pruned ELSE doc
        n              == IF jobs_to_remove = {} THEN 0 ELSE 1
    IN  IF jobs_to_remove # {} /\ wr = "raise"
        THEN Outcome(doc, Error("Error: exception"), 1)
        ELSE IF jobs_to_run = {}
        THEN Outcome(saved, [status |-> "success",
                             text |-> "No jobs scheduled to run", at |-> t,
                             jobs_to_run |-> {}], n)
        ELSE Outcome(saved, [status |-> "success", text |-> "Jobs to Run",
                             at |-> t, jobs_to_run |-> jobs_to_run,
                             removed |-> jobs_to_remove], n)

\* add's validation of run_at: fromisoformat of the string with Z replaced
RunAtParses(run_at) == ~FromIsoFormat(ReplaceZ(run_at)).raised

\* the keys of the job add stores: prompt and enabled always, every other
\* key only when its argument is truthy, once only next to run_at
NewJobKeys(a) ==
    {"prompt", "enabled"}
    \cup (IF TruthySeq(a.cron) THEN {"cron"} ELSE {})
    \cup (IF a.run_at # None THEN {"run_at"} ELSE {})
    \cup (IF a.run_at # None /\ a.once THEN {"once"} ELSE {})
    \cup (IF TruthyStr(a.system_prompt) THEN {"system_prompt"} ELSE {})
    \cup (IF TruthyStr(a.tools) THEN {"tools"} ELSE {})
    \cup (IF TruthyStr(a.model) THEN {"model"} ELSE {})
    \cup (IF TruthyInt(a.max_tokens) THEN {"max_tokens"} ELSE {})
    \cup (IF TruthyStr(a.context) THEN {"context"} ELSE {})

\* the job add stores under job_id: built from the arguments alone
NewJob(a) ==
    [k \in NewJobKeys(a) |->
        CASE k = "prompt"  -> a.prompt[1]
          [] k = "enabled" -> TRUE
          [] k = "once"    -> TRUE
          [] OTHER         -> a[k][1]]

\* PutJob that updates the stored job field by field (dict.update) instead
\* of replacing it
PutJobMerge(schedules, a) ==
    LET jobs == DictGetOr(schedules, "jobs", EmptyDict)
        fresh == [k \in NewJobKeys(a) |->
                     CASE k = "prompt"  -> a.prompt[1]
                       [] k = "enabled" -> TRUE
                       [] k = "once"    -> TRUE
                       [] OTHER         -> a[k][1]]
        old   == IF a.job_id[1] \in DOMAIN jobs THEN jobs[a.job_id[1]]
                 ELSE EmptyDict
        merged == [k \in DOMAIN old \cup DOMAIN fresh |->
                      IF k \in DOMAIN fresh THEN fresh[k] ELSE old[k]]
    IN  DictSet(schedules, "jobs", DictSet(jobs, a.job_id[1], merged))

\* schedules["jobs"][job_id] = {...}: the document with the job replaced
PutJob(schedules, a) ==
    LET jobs == JobsOf(schedules)
    IN  DictSet(schedules, "jobs", DictSet(jobs, a.job_id[1], NewJob(a)))

\* AddError without the test that cron or run_at is given
AddErrorNoTriggerTest(a) ==
    IF ~TruthyStr(a.job_id) THEN "Error: job_id is required"
    ELSE IF ~TruthyStr(a.prompt) THEN "Error: prompt is required"
    ELSE IF TruthySeq(a.cron) /\ _parse_cron(a.cron[1]).raised
    THEN "Error: Invalid cron expression"
    ELSE IF a.run_at # None /\ ~RunAtParses(a.run_at[1])
    THEN "Error: Invalid run_at format"
    ELSE ""

\* AddError that validates cron only when no run_at is given
AddErrorCronAlone(a) ==
    IF ~TruthyStr(a.job_id) THEN "Error: job_id is required"
    ELSE IF ~TruthySeq(a.cron) /\ a.run_at = None
    THEN "Error: Either cron or run_at is required"
    ELSE IF ~TruthyStr(a.prompt) THEN "Error: prompt is required"
    ELSE IF a.run_at = None /\ _parse_cron(a.cron[1]).raised
    THEN "Error: Invalid cron expression"
    ELSE IF a.run_at # None /\ ~RunAtParses(a.run_at[1])
    THEN "Error: Invalid run_at format"
    ELSE ""

\* add's validation, in the order of the code: the text of the error it
\* returns, or "" when the arguments pass
AddError(a) ==
    IF ~TruthyStr(a.job_id) THEN "Error: job_id is required"
    ELSE IF ~TruthySeq(a.cron) /\ a.run_at = None
    THEN "Error: Either cron or run_at is required"
    ELSE IF ~TruthyStr(a.prompt) THEN "Error: prompt is required"
    ELSE IF TruthySeq(a.cron) /\ _parse_cron(a.cron[1]).raised
    THEN "Error: Invalid cron expression"
    ELSE IF a.run_at # None /\ ~RunAtParses(a.run_at[1])
    THEN "Error: Invalid run_at format"
    ELSE ""

\* action == "add"
AddJob(a, doc, rd, wr) ==
    IF AddError(a) # "" THEN Outcome(doc, Error(AddError(a)), 0)
    ELSE
        LET schedules == _get_schedules(doc, rd)
            is_update == a.job_id[1] \in DOMAIN JobsOf(schedules)
        IN  SaveChecked(doc, PutJob(schedules, a), wr,
                        [status |-> "success",
                         text |-> IF is_update THEN "updated" ELSE "added"])

\* RemoveJob that saves a collection holding no job at all
RemoveJobLosesOthers(a, doc, rd, wr) ==
    IF ~TruthyStr(a.job_id)
    THEN Outcome(doc, Error("Error: job_id is required"), 0)
    ELSE
        LET schedules == _get_schedules(doc, rd)
            jobs      == JobsOf(schedules)
        IN  IF a.job_id[1] \notin DOMAIN jobs
            THEN Outcome(doc, Error("Job not found"), 0)
            ELSE SaveChecked(doc, DictSet(schedules, "jobs", EmptyDict),
                             wr, [status |-> "success", text |-> "removed"])

\* action == "remove"
RemoveJob(a, doc, rd, wr) ==
    IF ~TruthyStr(a.job_id)
    THEN Outcome(doc, Error("Error: job_id is required"), 0)
    ELSE
        LET schedules == _get_schedules(doc, rd)
            jobs      == JobsOf(schedules)
        IN  IF a.job_id[1] \notin DOMAIN jobs
            THEN Outcome(doc, Error("Job not found"), 0)
            ELSE SaveChecked(doc,
                             DictSet(schedules, "jobs", DictDel(jobs, a.job_id[1])),
                             wr, [status |-> "success", text |-> "removed"])

\* SetEnabled that stores a fresh job with the prompt and the flag
SetEnabledFresh(jobs, jid, flag) ==
    DictSet(jobs, jid,
            [k \in {"prompt", "enabled"} |->
                IF k = "prompt" THEN jobs[jid]["prompt"] ELSE flag])

\* SetEnabled that sets the flag whatever the action
SetEnabledAlways(jobs, jid, flag) ==
    DictSet(jobs, jid, DictSet(jobs[jid], "enabled", TRUE))

\* schedules["jobs"][job_id]["enabled"] = action == "enable"
SetEnabled(jobs, jid, flag) ==
    DictSet(jobs, jid, DictSet(jobs[jid], "enabled", flag))

\* action in ["enable", "disable"]
EnableJob(a, doc, rd, wr) ==
    IF ~TruthyStr(a.job_id)
    THEN Outcome(doc, Error("Error: job_id is required"), 0)
    ELSE
        LET schedules == _get_schedules(doc, rd)
            jobs      == JobsOf(schedules)
        IN  IF a.job_id[1] \notin DOMAIN jobs
            THEN Outcome(doc, Error("Job not found"), 0)
            ELSE SaveChecked(doc,
                             DictSet(schedules, "jobs",
                                     SetEnabled(jobs, a.job_id[1],
                                                a.action = "enable")),
                             wr,
                             [status |-> "success",
                              text |-> IF a.action = "enable" THEN "enabled"
                                       ELSE "disabled"])

\* GetJob that returns the job without its enabled key
GetJobStripped(a, doc, rd) ==
    IF ~TruthyStr(a.job_id)
    THEN Outcome(doc, Error("Error: job_id is required"), 0)
    ELSE
        LET jobs == DictGetOr(_get_schedules(doc, rd), "jobs", EmptyDict)
        IN  IF a.job_id[1] \notin DOMAIN jobs
            THEN Outcome(doc, Error("Job not found"), 0)
            ELSE Outcome(doc, [status |-> "success", text |-> "Job",
                               job |-> DictDel(jobs[a.job_id[1]], "enabled")], 0)

\* action == "get"
GetJob(a, doc, rd) ==
    IF ~TruthyStr(a.job_id)
    THEN Outcome(doc, Error("Error: job_id is required"), 0)
    ELSE
        LET jobs == JobsOf(_get_schedules(doc, rd))
        IN  IF a.job_id[1] \notin DOMAIN jobs
            THEN Outcome(doc, Error("Job not found"), 0)
            ELSE Outcome(doc, [status |-> "success", text |-> "Job",
                               job |-> jobs[a.job_id[1]]], 0)

\* scheduler(): the dispatch on action, after the repository and the token
\* were found
scheduler(a, doc, t, rd, wr) ==
    CASE a.action = "list"    -> ListJobs(a, doc, rd)
      [] a.action = "check"   -> CheckJobs(a, doc, t, rd, wr)
      [] a.action = "add"     -> AddJob(a, doc, rd, wr)
      [] a.action = "remove"  -> RemoveJob(a, doc, rd, wr)
      [] a.action \in {"enable", "disable"} -> EnableJob(a, doc, rd, wr)
      [] a.action = "get"     -> GetJob(a, doc, rd)
      [] OTHER                -> Outcome(doc, Error("Unknown action"), 0)

----------------------------------------------------------------------------
(* The inputs of the model *)

JobIds == {"a", "b"}

\* "0 9 * * 1-5": weekdays at 09:00
CronWeekday9 == <<"0", " ", "9", " ", "*", " ", "*", " ", "1", "-", "5">>

\* "0 9 * *": four fields
CronFourFields == <<"0", " ", "9", " ", "*", " ", "*">>

\* Wednesday 2024-01-03T09:00:00, in seconds since 2024-01-01T00:00:00
WedNine == 2 * 86400 + 9 * 3600

\* "2024-01-03T09:00:00Z"
RunAtZ == RunAtText(TRUE, WedNine, "Z")

\* "2024-01-03T09:00:00"
RunAtNaive == RunAtText(TRUE, WedNine, "")

\* "2024-01-03T14:00:00+05:00", the same instant as RunAtZ
RunAtPlus5 == RunAtText(TRUE, WedNine + 5 * 3600, "+05:00")

\* "2024-01-04T09:00:00Z": a day after RunAtZ
RunAtThursday == RunAtText(TRUE, WedNine + 86400, "Z")

\* "next friday": not ISO 8601
RunAtBad == RunAtText(FALSE, 0, "")

\* the instants at which the clock is read: before the window of WedNine,
\* at WedNine, at the end of the window and after it
Clock == {WedNine - 61, WedNine, WedNine + 3600, WedNine + 3601}

\* how many of the five optional payload arguments one add call sets
MaxOptArgs == 1

OptFields == {"system_prompt", "tools", "model", "max_tokens", "context"}

StrOpt == {None, Some(""), Some("x")}

IntOpt == {None, Some(0), Some(4096)}

OptChoices ==
    {o \in {[system_prompt |-> sp, tools |-> tl, model |-> md,
             max_tokens |-> mt, context |-> cx] :
                sp \in StrOpt, tl \in StrOpt, md \in StrOpt,
                mt \in IntOpt, cx \in StrOpt} :
        Cardinality({f \in OptFields : o[f] # None}) <= MaxOptArgs}

NoOpts == [f \in OptFields |-> None]

\* the arguments of one call of scheduler()
Args(action, job_id, cron, run_at, once, prompt, o) ==
    [action |-> action, job_id |-> job_id, cron |-> cron, run_at |-> run_at,
     once |-> once, prompt |-> prompt, system_prompt |-> o["system_prompt"],
     tools |-> o["tools"], model |-> o["model"],
     max_tokens |-> o["max_tokens"], context |-> o["context"]]

\* a call that passes only action and job_id
Plain(action, job_id) == Args(action, job_id, None, None, FALSE, None, NoOpts)

\* add calls that vary the trigger
TriggerArgs ==
    {Args("add", Some(j), c, r, once, Some("p"), NoOpts) :
        j \in JobIds, c \in {None, Some(CronWeekday9)},
        r \in {None, Some(RunAtZ)}, once \in BOOLEAN}

\* add calls that vary the payload, all of job "a"
PayloadArgs ==
    {Args("add", Some("a"), Some(CronWeekday9), None, FALSE, Some("q"), o) :
        o \in OptChoices}

\* add calls that fail one validation or another
InvalidArgs ==
    {Args("add", Some("a"), c, r, FALSE, Some("p"), NoOpts) :
        c \in {None, Some(<<>>), Some(CronFourFields), Some(CronWeekday9)},
        r \in {None, Some(RunAtBad), Some(RunAtZ)}}
    \cup {Args("add", Some("a"), Some(CronWeekday9), None, FALSE, p, NoOpts) :
        p \in {None, Some("")}}
    \cup {Args("add", j, Some(CronWeekday9), None, FALSE, Some("p"), NoOpts) :
        j \in {None, Some("")}}

AddArgs == TriggerArgs \cup PayloadArgs \cup InvalidArgs

JobIdArgs == {None} \cup {Some(j) : j \in JobIds}

\* the callers of scheduler() that can be under way at the same time
Procs == {1, 2}

\* a caller that is not in a call
Idle ==
    [pc |-> "idle", args |-> Plain("none", None), schedules |-> EmptyDict,
     at |-> 0, result |-> [status |-> "none", text |-> ""]]

NoneRunning == [p \in Procs |-> Idle]

----------------------------------------------------------------------------
(* The state machine: calls of scheduler() one after the other against a     *)
(* store whose reads and writes succeed, and a clock that moves on           *)

Init ==
    /\ store = EmptyDict
    /\ now = WedNine - 61
    /\ call = Plain("none", None)
    /\ result = [status |-> "none", text |-> ""]
    /\ wrote = 0
    /\ running = NoneRunning

List ==
    \E out \in {ListJobs(Plain("list", None), store, "ok")} :
        /\ store' = out.store
        /\ result' = out.result
        /\ wrote' = out.wrote
        /\ call' = Plain("list", None)
        /\ UNCHANGED <<now, running>>

Check ==
    \E out \in {CheckJobs(Plain("check", None), store, now, "ok", "ok")} :
        /\ store' = out.store
        /\ result' = out.result
        /\ wrote' = out.wrote
        /\ call' = Plain("check", None)
        /\ UNCHANGED <<now, running>>

Add ==
    \E a \in AddArgs :
        \E out \in {AddJob(a, store, "ok", "ok")} :
            /\ store' = out.store
            /\ result' = out.result
            /\ wrote' = out.wrote
            /\ call' = a
            /\ UNCHANGED <<now, running>>

Remove ==
    \E j \in JobIdArgs :
        \E out \in {RemoveJob(Plain("remove", j), store, "ok", "ok")} :
            /\ store' = out.store
            /\ result' = out.result
            /\ wrote' = out.wrote
            /\ call' = Plain("remove", j)
            /\ UNCHANGED <<now, running>>

Enable ==
    \E j \in JobIdArgs :
        \E out \in {EnableJob(Plain("enable", j), store, "ok", "ok")} :
            /\ store' = out.store
            /\ result' = out.result
            /\ wrote' = out.wrote
            /\ call' = Plain("enable", j)
            /\ UNCHANGED <<now, running>>

Disable ==
    \E j \in JobIdArgs :
        \E out \in {EnableJob(Plain("disable", j), store, "ok", "ok")} :
            /\ store' = out.store
            /\ result' = out.result
            /\ wrote' = out.wrote
            /\ call' = Plain("disable", j)
            /\ UNCHANGED <<now, running>>

Get ==
    \E j \in JobIdArgs :
        \E out \in {GetJob(Plain("get", j), store, "ok")} :
            /\ store' = out.store
            /\ result' = out.result
            /\ wrote' = out.wrote
            /\ call' = Plain("get", j)
            /\ UNCHANGED <<now, running>>

\* an action name scheduler() does not know
Unknown ==
    \E out \in {scheduler(Plain("run", None), store, now, "ok", "ok")} :
        /\ store' = out.store
        /\ result' = out.result
        /\ wrote' = out.wrote
        /\ call' = Plain("run", None)
        /\ UNCHANGED <<now, running>>

\* time passes between two calls
Tick == \E t \in Clock : t > now /\ now' = t /\ UNCHANGED <<store, call, result, wrote, running>>

Next ==
    \/ List
    \/ Check
    \/ Add
    \/ Remove
    \/ Enable
    \/ Disable
    \/ Get
    \/ Unknown
    \/ Tick

Spec == Init /\ [][Next]_vars

----------------------------------------------------------------------------
(* The run-at matcher alone: _run_at_matches applied to each run_at string   *)
(* at every second around the window of WedNine                              *)

\* how many seconds beyond an hour before and after WedNine the clock ranges
Margin == 120

RunAtTexts == {RunAtZ, RunAtNaive, RunAtPlus5, RunAtBad}

InitRunAt ==
    /\ store = EmptyDict
    /\ now \in (WedNine - 3600 - Margin)..(WedNine + 3600 + Margin)
    /\ call = Plain("none", None)
    /\ result = [status |-> "none", text |-> ""]
    /\ wrote = 0
    /\ running = NoneRunning

RunAtMatch ==
    \E run_at \in RunAtTexts :
        /\ call' = Args("_run_at_matches", None, None, Some(run_at), FALSE,
                        None, NoOpts)
        /\ result' = [status |-> "returned",
                      matches |-> _run_at_matches(run_at, now)]
        /\ UNCHANGED <<store, now, wrote, running>>

NextRunAt == RunAtMatch

SpecRunAt == InitRunAt /\ [][NextRunAt]_vars

----------------------------------------------------------------------------
(* The cron field matcher alone: _cron_field_matches applied to the text of  *)
(* every well-formed field over small numbers, at every value                *)

\* the largest number written in a field
MaxNum == 10

\* the largest value a field is matched against
MaxValue == 12

\* str(n) of a natural number
RECURSIVE Str(_)
Str(n) ==
    LET digit == CHOOSE c \in Digits : DigitValue(c) = n % 10
    IN  IF n < 10 THEN <<digit>> ELSE Str(n \div 10) \o <<digit>>

\* a well-formed field: what it says (kind and numbers) and its text
StarField == [kind |-> "star", a |-> 0, b |-> 0, c |-> 0, n |-> 1, text |-> <<"*">>]

StepField(n) ==
    [kind |-> "step", a |-> 0, b |-> 0, c |-> 0, n |-> n,
     text |-> <<"*", "/">> \o Str(n)]

RangeField(a, b) ==
    [kind |-> "range", a |-> a, b |-> b, c |-> 0, n |-> 1,
     text |-> Str(a) \o <<"-">> \o Str(b)]

RangeStepField(a, b, n) ==
    [kind |-> "rangestep", a |-> a, b |-> b, c |-> 0, n |-> n,
     text |-> Str(a) \o <<"-">> \o Str(b) \o <<"/">> \o Str(n)]

ListField(a, b, c) ==
    [kind |-> "list", a |-> a, b |-> b, c |-> c, n |-> 1,
     text |-> Str(a) \o <<",">> \o Str(b) \o <<",">> \o Str(c)]

BareField(a) ==
    [kind |-> "bare", a |-> a, b |-> 0, c |-> 0, n |-> 1, text |-> Str(a)]

FieldSpecs ==
    {StarField}
    \cup {StepField(n) : n \in 1..MaxNum}
    \cup {RangeField(a, b) : a \in 0..MaxNum, b \in 0..MaxNum}
    \cup {RangeStepField(a, b, n) :
              a \in 0..MaxNum, b \in 0..MaxNum, n \in 1..MaxNum}
    \cup {ListField(a, b, c) :
              a \in 0..MaxNum, b \in 0..MaxNum, c \in 0..MaxNum}
    \cup {BareField(a) : a \in 0..MaxNum}

\* a call of the matcher about to be made, with its arguments
InitField ==
    /\ store = EmptyDict
    /\ now = 0
    /\ call \in {[action |-> "pending", field |-> f, value |-> value] :
                    f \in FieldSpecs, value \in 0..MaxValue}
    /\ result = [status |-> "none"]
    /\ wrote = 0
    /\ running = NoneRunning

FieldMatch ==
    /\ call.action = "pending"
    /\ call' = [call EXCEPT !.action = "_cron_field_matches"]
    /\ result' = [status |-> "returned",
                  matches |-> _cron_field_matches(call.field.text, call.value)]
    /\ UNCHANGED <<store, now, wrote, running>>

NextField == FieldMatch

SpecField == InitField /\ [][NextField]_vars

----------------------------------------------------------------------------
(* The cron matcher alone: _cron_matches applied to five-field expressions   *)
(* at 09:00, 09:01, 10:00 and 10:01 of each day of the week of 2024-01-01    *)

\* the fields tried at each of the five positions
MinuteFields == {StarField, BareField(0), StepField(5)}

HourFields == {StarField, BareField(9), RangeField(8, 9)}

DayFields == {StarField, BareField(3), ListField(3, 6, 7)}

MonthFields == {StarField, BareField(1), BareField(2)}

WeekdayFields == {StarField, RangeField(1, 5), BareField(0), BareField(6)}

\* a cron expression: its five fields and its text
CronOf(mi, h, d, mo, w) ==
    [fields |-> <<mi, h, d, mo, w>>,
     text |-> mi.text \o <<" ">> \o h.text \o <<" ">> \o d.text \o <<" ">>
              \o mo.text \o <<" ">> \o w.text]

CronSpecs ==
    {CronOf(mi, h, d, mo, w) :
        mi \in MinuteFields, h \in HourFields, d \in DayFields,
        mo \in MonthFields, w \in WeekdayFields}

CronTimes ==
    {d * 86400 + h * 3600 + mi * 60 : d \in 0..6, h \in {9, 10}, mi \in {0, 1}}

InitCron ==
    /\ store = EmptyDict
    /\ now \in CronTimes
    /\ call \in {[action |-> "pending", cron |-> c] : c \in CronSpecs}
    /\ result = [status |-> "none"]
    /\ wrote = 0
    /\ running = NoneRunning

CronMatch ==
    /\ call.action = "pending"
    /\ call' = [call EXCEPT !.action = "_cron_matches"]
    /\ result' = [status |-> "returned",
                  matches |-> _cron_matches(call.cron.text, now)]
    /\ UNCHANGED <<store, now, wrote, running>>

NextCron == CronMatch

SpecCron == InitCron /\ [][NextCron]_vars

----------------------------------------------------------------------------
(* check on legacy documents: the stored document is a repository variable   *)
(* that can be written outside scheduler(), so a stored job can have a cron  *)
(* or a run_at that add would have refused                                   *)

\* "0 9 * * x": a field that is no number
CronNonNumeric == <<"0", " ", "9", " ", "*", " ", "*", " ", "x">>

\* "*/0 9 * * *": a step of zero
CronStepZero == <<"*", "/", "0", " ", "9", " ", "*", " ", "*", " ", "*">>

MalformedCrons == {CronFourFields, CronNonNumeric, CronStepZero}

\* a stored job with prompt "p" and the triggers given
JobOf(cron, run_at, once, enabled) ==
    [k \in {"prompt", "enabled"}
           \cup (IF cron # None THEN {"cron"} ELSE {})
           \cup (IF run_at # None THEN {"run_at"} ELSE {})
           \cup (IF once THEN {"once"} ELSE {}) |->
        CASE k = "prompt"  -> "p"
          [] k = "enabled" -> enabled
          [] k = "cron"    -> cron[1]
          [] k = "run_at"  -> run_at[1]
          [] k = "once"    -> TRUE]

\* job "a": at least one trigger, any of them possibly malformed
LegacyJobs ==
    {JobOf(c, r, once, TRUE) :
        c \in {None, Some(CronWeekday9)} \cup {Some(m) : m \in MalformedCrons},
        r \in {None, Some(RunAtBad), Some(RunAtZ)},
        once \in BOOLEAN}
    \ {JobOf(None, None, once, TRUE) : once \in BOOLEAN}

\* job "b": well-formed triggers
SoundJobs ==
    {JobOf(c, r, once, enabled) :
        c \in {None, Some(CronWeekday9)},
        r \in {None, Some(RunAtZ), Some(RunAtThursday)},
        once \in BOOLEAN, enabled \in BOOLEAN}
    \ {JobOf(None, None, once, enabled) : once \in BOOLEAN, enabled \in BOOLEAN}

LegacyDocs ==
    {[jobs |-> [j \in JobIds |-> IF j = "a" THEN ja ELSE jb],
      timezone |-> "UTC"] : ja \in LegacyJobs, jb \in SoundJobs}

InitLegacy ==
    /\ store \in LegacyDocs
    /\ now = WedNine - 61
    /\ call = Plain("none", None)
    /\ result = [status |-> "none", text |-> ""]
    /\ wrote = 0
    /\ running = NoneRunning

NextLegacy == Check \/ Tick

SpecLegacy == InitLegacy /\ [][NextLegacy]_vars

----------------------------------------------------------------------------
(* Overlapping calls.  scheduler() reads the variable, computes, and writes  *)
(* the whole document back, with nothing that ties the write to the read;    *)
(* two callers (two workflow runs) can each be between their read and their  *)
(* write.  A call is two steps here: its read and its write-and-return.      *)

\* the add calls of the overlapping callers: a cron job or a once job
RaceAddArgs ==
    {Args("add", Some(j), Some(CronWeekday9), None, FALSE, Some("p"), NoOpts) :
        j \in JobIds}
    \cup {Args("add", Some(j), None, Some(RunAtZ), TRUE, Some("p"), NoOpts) :
        j \in JobIds}

InitRace ==
    /\ store = EmptyDict
    /\ now = WedNine
    /\ call = Plain("none", None)
    /\ result = [status |-> "none", text |-> ""]
    /\ wrote = 0
    /\ running = NoneRunning

\* add up to and with schedules = _get_schedules(repo, token)
StartAdd(p) ==
    /\ running[p].pc = "idle"
    /\ \E a \in RaceAddArgs :
          /\ AddError(a) = ""
          /\ running' = [running EXCEPT ![p] =
                            [pc |-> "read", args |-> a,
                             schedules |-> _get_schedules(store, "ok"),
                             at |-> now, result |-> Idle.result]]
    /\ UNCHANGED <<store, now, call, result, wrote>>

\* check up to and with schedules = _get_schedules(repo, token) and
\* now = datetime.utcnow()
StartCheck(p) ==
    /\ running[p].pc = "idle"
    /\ running' = [running EXCEPT ![p] =
                      [pc |-> "read", args |-> Plain("check", None),
                       schedules |-> _get_schedules(store, "ok"),
                       at |-> now, result |-> Idle.result]]
    /\ UNCHANGED <<store, now, call, result, wrote>>

\* FinishAdd that reads the variable again right before it writes
FinishAddFresh(p) ==
    /\ running[p].pc = "read"
    /\ running[p].args.action = "add"
    /\ \E out \in {AddJob(running[p].args, store, "ok", "ok")} :
          /\ store' = out.store
          /\ call' = running[p].args
          /\ result' = out.result
          /\ wrote' = out.wrote
          /\ running' = [running EXCEPT ![p].pc = "done",
                                        ![p].result = out.result]
    /\ UNCHANGED now

\* the rest of add: the job is put into the document that was read, and
\* that document is written
FinishAdd(p) ==
    /\ running[p].pc = "read"
    /\ running[p].args.action = "add"
    /\ \E out \in {AddJob(running[p].args, running[p].schedules, "ok", "ok")} :
          /\ store' = IF out.wrote = 0 THEN store ELSE out.store
          /\ call' = running[p].args
          /\ result' = out.result
          /\ wrote' = out.wrote
          /\ running' = [running EXCEPT ![p].pc = "done",
                                        ![p].result = out.result]
    /\ UNCHANGED now

\* the rest of check: the due jobs of the document that was read, and, when
\* a job is retired, the write of that document without it
FinishCheck(p) ==
    /\ running[p].pc = "read"
    /\ running[p].args.action = "check"
    /\ \E out \in {CheckJobs(running[p].args, running[p].schedules,
                             running[p].at, "ok", "ok")} :
          /\ store' = IF out.wrote = 0 THEN store ELSE out.store
          /\ call' = running[p].args
          /\ result' = out.result
          /\ wrote' = out.wrote
          /\ running' = [running EXCEPT ![p].pc = "done",
                                        ![p].result = out.result]
    /\ UNCHANGED now

\* the caller has its result and can call again
Return(p) ==
    /\ running[p].pc = "done"
    /\ running' = [running EXCEPT ![p] = Idle]
    /\ UNCHANGED <<store, now, call, result, wrote>>

NextRace ==
    \E p \in Procs :
        \/ StartAdd(p)
        \/ StartCheck(p)
        \/ FinishAdd(p)
        \/ FinishCheck(p)
        \/ Return(p)

SpecRace == InitRace /\ [][NextRace]_vars

----------------------------------------------------------------------------
(* The projects tool (src/strands_coder/tools/projects.py): the GraphQL API  *)
(* it talks to.  A reply is what one request meets: kind "ok" with the       *)
(* payload's data, or one of the failures.  Every helper gives a Sent        *)
(* record: what it returns (Ok(v) or Raise) and the requests it posted, in   *)
(* order.                                                                    *)

\* the ways one request fails: no token in the environment, requests.post
\* raises, raise_for_status() raises, the payload has an "errors" member
Failures == {"no_token", "transport", "http", "errors"}

OkReply(data) == [kind |-> "ok", data |-> data]

Failed(kind, data) == [kind |-> kind, data |-> data]

\* the replies a request can meet: ok with one of datas, or a failure (whose
\* data nobody reads)
Replies(datas, unread) ==
    {OkReply(d) : d \in datas} \cup {Failed(k, unread) : k \in Failures}

\* one posted request: the operation, the node it is about, and for a
\* field-value mutation the type and the value sent
Req(op, target, type, text, number) ==
    [op |-> op, target |-> target, field |-> "", type |-> type,
     text |-> text, number |-> number, repo |-> <<>>]

\* the lookup of an issue or a pull request by (owner, repo, number)
Lookup(op, parts, number) ==
    [op |-> op, target |-> "", field |-> "", type |-> "", text |-> "",
     number |-> number, repo |-> parts]

\* the updateProjectV2ItemFieldValue mutation: the item, the field, the kind
\* of value (value_type) and the value
FieldValue(item_id, field_id, type, text, number) ==
    [op |-> "updateProjectV2ItemFieldValue", target |-> item_id,
     field |-> field_id, type |-> type, text |-> text, number |-> number,
     repo |-> <<>>]

Query(op, target) == Req(op, target, "", "", 0)

Sent(ret, log) == [ret |-> ret, log |-> log]

\* _execute_graphql: raises before posting when the token is missing, raises
\* after posting on the other failures, returns the payload otherwise
_execute_graphql(req, reply) ==
    Sent(IF reply.kind = "ok" THEN Ok(reply.data) ELSE Raise,
         IF reply.kind = "no_token" THEN <<>> ELSE <<req>>)

\* _get_owner_id: the user's id, else the organization's id, else ValueError;
\* an exception of either lookup is swallowed.  The data of a lookup is None
\* (no such login) or <<id>>.
_get_owner_id(owner, env) ==
    LET u == _execute_graphql(Query("user", owner), env.user)
    IN  IF ~u.ret.raised /\ u.ret.v # None
        THEN Sent(Ok(u.ret.v[1]), u.log)
        ELSE LET o == _execute_graphql(Query("organization", owner),
                                       env.organization)
             IN  IF ~o.ret.raised /\ o.ret.v # None
                 THEN Sent(Ok(o.ret.v[1]), u.log \o o.log)
                 ELSE Sent(Raise, u.log \o o.log)

\* _get_issue_node_id / _get_pr_node_id: the data of the lookup says whether
\* the repository member is an object and gives the issue's or pull
\* request's id if there is one; a null repository raises AttributeError
_get_node_id(op, parts, number, reply) ==
    LET r == _execute_graphql(Lookup(op, parts, number), reply)
    IN  IF r.ret.raised THEN r
        ELSE IF ~r.ret.v.repository THEN Sent(Raise, r.log)
        ELSE Sent(Ok(r.ret.v.id), r.log)

\* _parse_repository: exactly one "/" or ValueError
_parse_repository(repository) ==
    IF Len(SplitOn(repository, "/")) # 2 THEN Raise
    ELSE Ok(SplitOn(repository, "/"))

\* _list_projects, which swallows the exception of either lookup.  The data
\* of a lookup is None (no such login) or <<nodes>>, the projectsV2
\* connection of the login.
_list_projects(owner, env) ==
    LET u == _execute_graphql(Query("user.projectsV2", owner),
                              env.user_projects)
    IN  IF ~u.ret.raised /\ u.ret.v # None
        THEN Sent(Ok(u.ret.v[1]), u.log)
        ELSE LET o == _execute_graphql(Query("organization.projectsV2", owner),
                                       env.org_projects)
             IN  IF ~o.ret.raised /\ o.ret.v # None
                 THEN Sent(Ok(o.ret.v[1]), u.log \o o.log)
                 ELSE Sent(Ok(<<>>), u.log \o o.log)

\* _update_project(project_id, short_description=description)
_update_project(project_id, short_description, env) ==
    LET r == _execute_graphql(Req("updateProjectV2", project_id,
                                  "shortDescription", short_description, 0),
                              env.update)
    IN  IF r.ret.raised THEN r ELSE Sent(Ok(EmptyDict), r.log)

\* _create_project: the data of the create mutation is the projectV2 dict
_create_projectAlwaysDescribes(owner, title, description, env) ==
    LET o == _get_owner_id(owner, env)
    IN  IF o.ret.raised THEN o
        ELSE
            LET c == _execute_graphql(Req("createProjectV2", o.ret.v, "title",
                                          title, 0), env.create)
            IN  IF c.ret.raised THEN Sent(Raise, o.log \o c.log)
                ELSE
                    LET project == c.ret.v
                    IN  IF "id" \in DOMAIN project
                        THEN LET u == _update_project(project.id, description,
                                                      env)
                             IN  IF u.ret.raised
                                 THEN Sent(Raise, o.log \o c.log \o u.log)
                                 ELSE Sent(Ok(project),
                                           o.log \o c.log \o u.log)
                        ELSE Sent(Ok(project), o.log \o c.log)

_create_projectAnyOwner(owner, title, description, env) ==
    LET o == _get_owner_id(owner, env)
        c == _execute_graphql(Req("createProjectV2",
                                  IF o.ret.raised THEN owner ELSE o.ret.v,
                                  "title", title, 0), env.create)
    IN  IF c.ret.raised THEN Sent(Raise, o.log \o c.log)
        ELSE Sent(Ok(c.ret.v), o.log \o c.log)

_create_project(owner, title, description, env) ==
    LET o == _get_owner_id(owner, env)
    IN  IF o.ret.raised THEN o
        ELSE
            LET c == _execute_graphql(Req("createProjectV2", o.ret.v, "title",
                                          title, 0), env.create)
            IN  IF c.ret.raised THEN Sent(Raise, o.log \o c.log)
                ELSE
                    LET project == c.ret.v
                    IN  IF description # "" /\ "id" \in DOMAIN project
                        THEN LET u == _update_project(project.id, description,
                                                      env)
                             IN  IF u.ret.raised
                                 THEN Sent(Raise, o.log \o c.log \o u.log)
                                 ELSE Sent(Ok(project),
                                           o.log \o c.log \o u.log)
                        ELSE Sent(Ok(project), o.log \o c.log)

\* _add_item: the data of the mutation is the item dict
_add_item(project_id, content_id, env) ==
    _execute_graphql(Req("addProjectV2ItemById", project_id, "contentId",
                         content_id, 0), env.add)

\* _get_project: the data of the query is None (a null node) or <<project>>
_get_project(project_id, env) ==
    _execute_graphql(Query("node", project_id), env.project)

\* _update_item_field with one of the value types the callers pass
_update_item_field(item_id, field_id, type, text, number, reply) ==
    _execute_graphql(FieldValue(item_id, field_id, type, text, number), reply)

\* [x.get("name") for x in nodes]
NamesOf(nodes) == [i \in 1..Len(nodes) |-> nodes[i].name]

\* str.lower() of the names of the model
Lower(s) ==
    CASE s = "Status"   -> "status"
      [] s = "Done"     -> "done"
      [] s = "Todo"     -> "todo"
      [] s = "Estimate" -> "estimate"
      [] OTHER          -> s

\* the first node whose name compares equal to name: its index, or 0 when the
\* loop ends without a break
FirstNamedAnyCase(nodes, name) ==
    LET hits == {i \in 1..Len(nodes) : Lower(nodes[i].name) = Lower(name)}
    IN  IF hits = {} THEN 0
        ELSE CHOOSE i \in hits : \A j \in hits : i <= j

FirstNamed(nodes, name) ==
    LET hits == {i \in 1..Len(nodes) : nodes[i].name = name}
    IN  IF hits = {} THEN 0
        ELSE CHOOSE i \in hits : \A j \in hits : i <= j

\* PyFloat that gives 0 for a text float() rejects
PyFloatLenient(s) ==
    CASE s = "3"  -> Ok(3)
      [] s = "10" -> Ok(10)
      [] OTHER    -> Ok(0)

\* float(field_value) on the values of the model
PyFloat(s) ==
    CASE s = "3"  -> Ok(3)
      [] s = "10" -> Ok(10)
      [] OTHER    -> Raise

\* the value update_item sends for a SINGLE_SELECT field
OptionValueByName(option) == option.name

OptionValue(option) == option.id

\* action == "update_item", after project_id was settled
UpdateItem(a, project_id, env) ==
    IF ~TruthyStr(a.item_id) \/ ~TruthyStr(a.field_name)
       \/ a.field_value = None
    THEN Sent(Ok(Error("Error: item_id, field_name, and field_value are required")),
              <<>>)
    ELSE
        LET p == _get_project(project_id, env)
        IN  IF p.ret.raised THEN p
            ELSE IF p.ret.v = None THEN Sent(Raise, p.log)
            ELSE
                LET fields == p.ret.v[1].fields
                    at     == FirstNamed(fields, a.field_name[1])
                IN  IF at = 0
                    THEN Sent(Ok([status |-> "error",
                                  text |-> "Field not found. Available:",
                                  available |-> NamesOf(fields)]), p.log)
                    ELSE
                        LET target_field == fields[at]
                            options == DictGetOr(target_field, "options", <<>>)
                            opt     == FirstNamed(options, a.field_value[1])
                            number  == PyFloat(a.field_value[1])
                            m == CASE target_field.dataType = "SINGLE_SELECT" ->
                                        _update_item_field(a.item_id[1],
                                            target_field.id,
                                            "singleSelectOptionId",
                                            IF opt = 0 THEN ""
                                            ELSE OptionValue(options[opt]),
                                            0, env.set_field)
                                   [] target_field.dataType = "NUMBER" ->
                                        _update_item_field(a.item_id[1],
                                            target_field.id, "number", "",
                                            IF number.raised THEN 0
                                            ELSE number.v, env.set_field)
                                   [] target_field.dataType = "DATE" ->
                                        _update_item_field(a.item_id[1],
                                            target_field.id, "date",
                                            a.field_value[1], 0, env.set_field)
                                   [] OTHER ->
                                        _update_item_field(a.item_id[1],
                                            target_field.id, "text",
                                            a.field_value[1], 0, env.set_field)
                        IN  IF target_field.dataType = "SINGLE_SELECT" /\ opt = 0
                            THEN Sent(Ok([status |-> "error",
                                          text |-> "Option not found. Available:",
                                          available |-> NamesOf(options)]),
                                      p.log)
                            ELSE IF target_field.dataType = "NUMBER"
                                    /\ number.raised
                            THEN Sent(Raise, p.log)
                            ELSE IF m.ret.raised THEN Sent(Raise, p.log \o m.log)
                            ELSE Sent(Ok([status |-> "success",
                                          text |-> "Item updated!"]),
                                      p.log \o m.log)

----------------------------------------------------------------------------
(* _get_progress.  An item is a record of type, state (content.state),       *)
(* isArchived and fieldValues, a sequence of records of field (the name of   *)
(* the field) and name (the name of the chosen option).                      *)

\* the counters of the loop before the first item; by_status starts with
\* every option of the first field named Status, if that field has options
Counters(project) ==
    LET at == FirstNamed(project.fields, "Status")
        options == IF at = 0 THEN <<>>
                   ELSE DictGetOr(project.fields[at], "options", <<>>)
    IN  [issues_open |-> 0, issues_closed |-> 0, prs_open |-> 0,
         prs_merged |-> 0, prs_closed |-> 0, drafts |-> 0, archived |-> 0,
         status_counts |-> [n \in {options[i].name : i \in 1..Len(options)}
                              |-> 0]]

\* for fv in fieldValues: count the Status value if it has a name
RECURSIVE CountStatus(_, _)
CountStatus(status_counts, nodes) ==
    IF nodes = <<>> THEN status_counts
    ELSE LET fv == Head(nodes)
         IN  CountStatus(
                 IF fv.field = "Status" /\ fv.name # ""
                 THEN DictSet(status_counts, fv.name,
                              DictGetOr(status_counts, fv.name, 0) + 1)
                 ELSE status_counts,
                 Tail(nodes))

\* the body of the loop for an item that is not archived
CountActive(c, item) ==
    LET typed ==
          CASE item.type = "ISSUE" ->
                   IF item.state = "OPEN"
                   THEN [c EXCEPT !.issues_open = @ + 1]
                   ELSE [c EXCEPT !.issues_closed = @ + 1]
            [] item.type = "PULL_REQUEST" ->
                   IF item.state = "MERGED"
                   THEN [c EXCEPT !.prs_merged = @ + 1]
                   ELSE IF item.state = "OPEN"
                   THEN [c EXCEPT !.prs_open = @ + 1]
                   ELSE [c EXCEPT !.prs_closed = @ + 1]
            [] item.type = "DRAFT_ISSUE" -> [c EXCEPT !.drafts = @ + 1]
            [] OTHER -> c
    IN  [typed EXCEPT !.status_counts = CountStatus(@, item.fieldValues)]

\* the body of the loop: an archived item is counted as archived and nothing
\* else
CountItemEvenArchived(c, item) ==
    IF item.isArchived
    THEN CountActive([c EXCEPT !.archived = @ + 1], item)
    ELSE CountActive(c, item)

CountItem(c, item) ==
    IF item.isArchived THEN [c EXCEPT !.archived = @ + 1]
    ELSE CountActive(c, item)

RECURSIVE CountItems(_, _)
CountItems(c, items) ==
    IF items = <<>> THEN c
    ELSE CountItems(CountItem(c, Head(items)), Tail(items))

_get_progress(project) ==
    LET c == CountItems(Counters(project), project.items)
    IN  [summary |-> [total_items |-> project.totalCount,
                      active_items |-> project.totalCount - c.archived,
                      archived_items |-> c.archived],
         issues |-> [open |-> c.issues_open, closed |-> c.issues_closed,
                     total |-> c.issues_open + c.issues_closed],
         pull_requests |-> [open |-> c.prs_open, merged |-> c.prs_merged,
                            closed |-> c.prs_closed,
                            total |-> c.prs_open + c.prs_merged + c.prs_closed],
         drafts |-> c.drafts,
         by_status |-> c.status_counts]

----------------------------------------------------------------------------
(* The bulk operations.  replies[i] is what the i-th request meets; success  *)
(* and failed are the two lists of the result, log the requests posted.      *)

\* one slot of the success list: a dict for _bulk_add_items, the id otherwise
Succeeded(op, id, data) ==
    IF op = "addProjectV2ItemById" THEN [content_id |-> id, item |-> data]
    ELSE [item_id |-> id]

\* one slot of the failed list: the id and the text of the exception
FailedSlot(id) == [id |-> id, error |-> "exception"]

\* the request of one turn of the loop
BulkRequest(op, project_id, id, field_id, option_id) ==
    IF op = "updateProjectV2ItemFieldValue"
    THEN FieldValue(id, field_id, "singleSelectOptionId", option_id, 0)
    ELSE Req(op, project_id, "", id, 0)

RECURSIVE BulkAllOrNothing(_, _, _, _, _, _)
BulkAllOrNothing(op, project_id, ids, field_id, option_id, replies) ==
    IF ids = <<>> THEN [success |-> <<>>, failed |-> <<>>, log |-> <<>>]
    ELSE
        LET r == _execute_graphql(BulkRequest(op, project_id, Head(ids),
                                              field_id, option_id),
                                  Head(replies))
            rest == BulkAllOrNothing(op, project_id, Tail(ids), field_id,
                                     option_id, Tail(replies))
        IN  IF r.ret.raised
            THEN [success |-> <<>>, failed |-> <<FailedSlot(Head(ids))>>,
                  log |-> r.log]
            ELSE [success |-> <<Succeeded(op, Head(ids), r.ret.v)>>
                                  \o rest.success,
                  failed |-> rest.failed, log |-> r.log \o rest.log]

\* for id in ids: try the single-item operation, append to success, except
\* Exception append to failed
RECURSIVE Bulk(_, _, _, _, _, _)
Bulk(op, project_id, ids, field_id, option_id, replies) ==
    IF ids = <<>> THEN [success |-> <<>>, failed |-> <<>>, log |-> <<>>]
    ELSE
        LET r == _execute_graphql(BulkRequest(op, project_id, Head(ids),
                                              field_id, option_id),
                                  Head(replies))
            rest == Bulk(op, project_id, Tail(ids), field_id, option_id,
                         Tail(replies))
        IN  IF r.ret.raised
            THEN [success |-> rest.success,
                  failed |-> <<FailedSlot(Head(ids))>> \o rest.failed,
                  log |-> r.log \o rest.log]
            ELSE [success |-> <<Succeeded(op, Head(ids), r.ret.v)>>
                                  \o rest.success,
                  failed |-> rest.failed, log |-> r.log \o rest.log]

_bulk_add_items(project_id, content_ids, replies) ==
    Bulk("addProjectV2ItemById", project_id, content_ids, "", "", replies)

_bulk_update_status(project_id, item_ids, field_id, option_id, replies) ==
    Bulk("updateProjectV2ItemFieldValue", project_id, item_ids, field_id,
         option_id, replies)

_bulk_archive(project_id, item_ids, replies) ==
    Bulk("archiveProjectV2Item", project_id, item_ids, "", "", replies)

----------------------------------------------------------------------------
(* projects(): one operator per action.  Each takes the arguments of the     *)
(* call (a) and the replies the requests meet (env), and gives a Sent        *)
(* record whose value is the returned dict.                                  *)

Success(text) == [status |-> "success", text |-> text]

\* action == "list_projects"
ListProjects(a, env) ==
    IF ~TruthyStr(a.owner)
    THEN Sent(Ok(Error("Error: owner parameter is required")), <<>>)
    ELSE LET l == _list_projects(a.owner[1], env)
         IN  IF l.ret.v = <<>>
             THEN Sent(Ok(Success("No projects found")), l.log)
             ELSE Sent(Ok([status |-> "success", text |-> "Found project(s)",
                           listed |-> l.ret.v]), l.log)

\* action == "get_project"
GetProject(a, project_id, env) ==
    LET p == _get_project(project_id, env)
    IN  IF p.ret.raised THEN p
        ELSE IF p.ret.v = None
        THEN Sent(Ok(Error("Project not found")), p.log)
        ELSE Sent(Ok([status |-> "success", text |-> "Project",
                      project |-> p.ret.v[1]]), p.log)

\* action == "create_project"
CreateProject(a, env) ==
    IF ~TruthyStr(a.owner) \/ ~TruthyStr(a.title)
    THEN Sent(Ok(Error("Error: owner and title parameters are required")),
              <<>>)
    ELSE LET c == _create_project(a.owner[1], a.title[1],
                                  IF a.description = None THEN ""
                                  ELSE a.description[1], env)
         IN  IF c.ret.raised THEN c
             ELSE Sent(Ok([status |-> "success",
                           text |-> "Project created successfully!",
                           project |-> c.ret.v]), c.log)

\* action == "add_item"
AddItem(a, project_id, env) ==
    IF ~TruthyStr(a.content_id)
    THEN Sent(Ok(Error("Error: content_id parameter is required")), <<>>)
    ELSE LET i == _add_item(project_id, a.content_id[1], env)
         IN  IF i.ret.raised THEN i
             ELSE Sent(Ok([status |-> "success",
                           text |-> "Item added to project!",
                           item |-> i.ret.v]), i.log)

\* action == "add_issue" (op "issue", number issue_number) and "add_pr" (op
\* "pullRequest", number pr_number)
AddByNumberUnchecked(a, project_id, op, number, env) ==
    IF ~TruthySeq(a.repository) \/ number = None
    THEN Sent(Ok(Error("Error: repository and number are required")), <<>>)
    ELSE
        LET parts == _parse_repository(a.repository[1])
        IN  IF parts.raised THEN Sent(Raise, <<>>)
            ELSE
                LET n == _get_node_id(op, parts.v, number[1], env.node)
                    i == _add_item(project_id,
                                   IF n.ret.raised \/ n.ret.v = None THEN ""
                                   ELSE n.ret.v[1], env)
                IN  IF n.ret.raised THEN n
                    ELSE IF i.ret.raised THEN Sent(Raise, n.log \o i.log)
                    ELSE Sent(Ok([status |-> "success",
                                  text |-> "added to project!",
                                  item |-> i.ret.v]), n.log \o i.log)

AddByNumber(a, project_id, op, number, env) ==
    IF ~TruthySeq(a.repository) \/ number = None
    THEN Sent(Ok(Error("Error: repository and number are required")), <<>>)
    ELSE
        LET parts == _parse_repository(a.repository[1])
        IN  IF parts.raised THEN Sent(Raise, <<>>)
            ELSE
                LET n == _get_node_id(op, parts.v, number[1], env.node)
                IN  IF n.ret.raised THEN n
                    ELSE IF n.ret.v = None
                    THEN Sent(Ok(Error("not found in repository")), n.log)
                    ELSE
                        LET i == _add_item(project_id, n.ret.v[1], env)
                        IN  IF i.ret.raised THEN Sent(Raise, n.log \o i.log)
                            ELSE Sent(Ok([status |-> "success",
                                          text |-> "added to project!",
                                          item |-> i.ret.v]), n.log \o i.log)

\* action == "create_field"
CreateField(a, project_id, env) ==
    IF ~TruthyStr(a.field_name) \/ ~TruthyStr(a.field_type)
    THEN Sent(Ok(Error("Error: field_name and field_type are required")), <<>>)
    ELSE LET f == _execute_graphql(Req("createProjectV2Field", project_id,
                                       a.field_type[1], a.field_name[1], 0),
                                   env.create_field)
         IN  IF f.ret.raised THEN f
             ELSE Sent(Ok([status |-> "success", text |-> "Field created!",
                           field |-> f.ret.v]), f.log)

\* action == "get_progress": a null node makes _get_progress raise
GetProgress(a, project_id, env) ==
    LET p == _get_project(project_id, env)
    IN  IF p.ret.raised THEN p
        ELSE IF p.ret.v = None THEN Sent(Raise, p.log)
        ELSE Sent(Ok([status |-> "success", text |-> "Project Progress",
                      progress |-> _get_progress(p.ret.v[1])]), p.log)

\* project_id as the body of projects() uses it: the argument, or for an
\* action that needs a project the STRANDS_CODER_PROJECT_ID of the
\* environment
ProjectId(a, env) ==
    IF ~TruthyStr(a.project_id)
       /\ a.action \notin {"list_projects", "create_project"}
    THEN env.default_project ELSE a.project_id

\* the early return of an action that needs a project and has none
NoProject(a, env) == ~TruthyStr(ProjectId(a, env))

ProjectRequired == Sent(Ok(Error("Error: project_id is required")), <<>>)

\* the else branch of the dispatch
UnknownAction(a) == Sent(Ok(Error("Error: Unknown action")), <<>>)

\* the try around the body of projects(): an exception becomes an error
\* result
BoundaryOpen(r) ==
    [result |-> IF r.ret.raised THEN [status |-> "raised", text |-> ""]
                ELSE r.ret.v,
     log |-> r.log]

Boundary(r) ==
    [result |-> IF r.ret.raised THEN Error("Error: exception") ELSE r.ret.v,
     log |-> r.log]

\* the dict projects() returns, {"status": ..., "content": [{"text": ...}]}.
\* A result of the model is a record of the status and of the parts of the
\* text (its wording and the values formatted into it); the dict has the two
\* keys status and content, and content is a list of one dict whose only key
\* is text.
Envelope(r) ==
    [status |-> r.status,
     content |-> << [text |-> [k \in DOMAIN r \ {"status"} |-> r[k]]] >>]

\* scheduler() from its first line: the repository, the token, the dispatch.
\* env says whether a repository and a token are found and how the read and
\* the write of the variable end.
schedulerFromTop(a, doc, t, env) ==
    IF ~env.repository
    THEN Outcome(doc, Error("Error: Repository not specified"), 0)
    ELSE IF ~env.token
    THEN Outcome(doc, Error("Error: GitHub token not available"), 0)
    ELSE scheduler(a, doc, t, env.rd, env.wr)

----------------------------------------------------------------------------
(* One call of either tool against a remote side that can fail.  The call   *)
(* and what its requests meet are drawn at the start; store keeps the        *)
(* scheduler's document, the requests the call posted and the projects that  *)
(* exist remotely.                                                           *)

\* the arguments of one call of projects(), all unset
Unset(action) ==
    [action |-> action, project_id |-> None, owner |-> None, title |-> None,
     description |-> None, content_id |-> None, item_id |-> None,
     field_name |-> None, field_value |-> None, field_type |-> None,
     repository |-> None, issue_number |-> None, pr_number |-> None]

\* "o/r", "o" and "o/r/x"
RepoGood == <<"o", "/", "r">>

RepoNoSlash == <<"o">>

RepoTwoSlashes == <<"o", "/", "r", "/", "x">>

\* the fields of a project: Title, Status with two options, a number, a date
FieldsUsual ==
    << [id |-> "F_title", name |-> "Title", dataType |-> "TITLE"],
       [id |-> "F_status", name |-> "Status", dataType |-> "SINGLE_SELECT",
        options |-> << [id |-> "O_todo", name |-> "Todo"],
                       [id |-> "O_done", name |-> "Done"] >>],
       [id |-> "F_estimate", name |-> "Estimate", dataType |-> "NUMBER"],
       [id |-> "F_due", name |-> "Due", dataType |-> "DATE"] >>

\* a project whose fields differ in case only, the text field first
FieldsCased ==
    << [id |-> "F_lower", name |-> "status", dataType |-> "TEXT"],
       [id |-> "F_status", name |-> "Status", dataType |-> "SINGLE_SELECT",
        options |-> << [id |-> "O_lower", name |-> "done"],
                       [id |-> "O_done", name |-> "Done"] >>] >>

\* a project with an iteration field and a field of a type the code does
\* not name
FieldsOther ==
    << [id |-> "F_sprint", name |-> "Sprint", dataType |-> "ITERATION"],
       [id |-> "F_size", name |-> "Size", dataType |-> "FUTURE_TYPE"] >>

ProjectOf(fields, items) ==
    [id |-> "PVT_1", fields |-> fields, items |-> items,
     totalCount |-> Len(items)]

IssueOpenTodo ==
    [type |-> "ISSUE", state |-> "OPEN", isArchived |-> FALSE,
     fieldValues |-> << [field |-> "Status", name |-> "Todo"] >>]

\* what the project query answers in the calls of update_item and so on
ProjectDatas ==
    {None, Some(ProjectOf(FieldsUsual, <<IssueOpenTodo>>)),
     Some(ProjectOf(FieldsCased, <<>>)), Some(ProjectOf(FieldsOther, <<>>)),
     Some(ProjectOf(<<>>, <<>>))}

\* what the requests of a call meet when nothing fails: the login is a user
\* without projects, the issue exists
Calm ==
    [default_project |-> Some("PVT_9"),
     user          |-> OkReply(Some("U_1")),
     organization  |-> OkReply(None),
     user_projects |-> OkReply(Some(<<>>)),
     org_projects  |-> OkReply(None),
     create        |-> OkReply([id |-> "P1"]),
     update        |-> OkReply(EmptyDict),
     node          |-> OkReply([repository |-> TRUE, id |-> Some("I_1")]),
     add           |-> OkReply([id |-> "PVTI_1"]),
     project       |-> OkReply(Some(ProjectOf(FieldsUsual, <<>>))),
     set_field     |-> OkReply(EmptyDict),
     create_field  |-> OkReply([id |-> "F_new"])]

ProjectLists == {None, Some(<<>>), Some(<<[id |-> "P7"]>>)}

OrgLists == {None, Some(<<>>), Some(<<[id |-> "P8"]>>)}

IdReplies(id) == Replies({None, Some(id)}, None)

NodeReplies ==
    Replies({[repository |-> FALSE, id |-> None],
             [repository |-> TRUE, id |-> None],
             [repository |-> TRUE, id |-> Some("I_1")]},
            [repository |-> FALSE, id |-> None])

\* a call of projects() and what it meets
ProjectsCalls ==
    {[request |-> [Unset("list_projects") EXCEPT !.owner = o],
      env |-> [Calm EXCEPT !.user_projects = u, !.org_projects = g]] :
        o \in {None, Some(""), Some("octo")},
        u \in Replies(ProjectLists, None), g \in Replies(OrgLists, None)}
    \cup
    {[request |-> [Unset("create_project") EXCEPT !.owner = ot[1],
                     !.title = ot[2], !.description = d],
      env |-> [Calm EXCEPT !.user = u, !.organization = g, !.create = c,
                           !.update = s]] :
        ot \in {<<None, Some("T")>>, <<Some("octo"), None>>,
                <<Some("octo"), Some("T")>>},
        d \in {None, Some(""), Some("d")},
        u \in IdReplies("U_1"), g \in IdReplies("O_1"),
        c \in Replies({EmptyDict, [id |-> "P1"]}, EmptyDict),
        s \in Replies({EmptyDict}, EmptyDict)}
    \cup
    {[request |-> [Unset(act) EXCEPT !.project_id = p, !.repository = r,
                     !.issue_number = IF act = "add_issue" THEN n ELSE None,
                     !.pr_number = IF act = "add_pr" THEN n ELSE None],
      env |-> [Calm EXCEPT !.default_project = dp, !.node = l, !.add = m]] :
        act \in {"add_issue", "add_pr"},
        p \in {None, Some("PVT_1")}, dp \in {None, Some("PVT_9")},
        r \in {None, Some(RepoGood), Some(RepoNoSlash), Some(RepoTwoSlashes)},
        n \in {None, Some(0), Some(7)},
        l \in NodeReplies,
        m \in Replies({[id |-> "PVTI_1"]}, EmptyDict)}
    \cup
    {[request |-> [Unset("update_item") EXCEPT !.project_id = Some("PVT_1"),
                     !.item_id = i, !.field_name = f, !.field_value = v],
      env |-> [Calm EXCEPT !.project = p, !.set_field = m]] :
        i \in {None, Some("PVTI_1")},
        f \in {None, Some("Status"), Some("status"), Some("Estimate"),
               Some("Due"), Some("Title"), Some("Size"), Some("Sprint")},
        v \in {None, Some("Done"), Some("done"), Some("Closed"), Some("3")},
        p \in Replies(ProjectDatas, None),
        m \in Replies({EmptyDict}, EmptyDict)}
    \cup
    {[request |-> [Unset(act) EXCEPT !.project_id = p],
      env |-> [Calm EXCEPT !.project = q]] :
        act \in {"get_project", "get_progress"},
        p \in {None, Some("PVT_1")}, q \in Replies(ProjectDatas, None)}
    \cup
    {[request |-> [Unset("add_item") EXCEPT !.content_id = c],
      env |-> [Calm EXCEPT !.add = m]] :
        c \in {None, Some("I_1")},
        m \in Replies({[id |-> "PVTI_1"]}, EmptyDict)}
    \cup
    {[request |-> [Unset("create_field") EXCEPT !.field_name = f,
                     !.field_type = t],
      env |-> [Calm EXCEPT !.create_field = m]] :
        f \in {None, Some("Size")}, t \in {None, Some("TEXT")},
        m \in Replies({[id |-> "F_new"]}, EmptyDict)}
    \cup
    {[request |-> [Unset("frobnicate") EXCEPT !.project_id = p], env |-> Calm] :
        p \in {None, Some("PVT_1")}}

\* what a call of scheduler() meets: is a repository found, is a token found,
\* how the read and the write of the variable end
SchedulerEnvs ==
    [repository : BOOLEAN, token : BOOLEAN, rd : {"ok", "fail"},
     wr : {"ok", "fail", "raise"}]

\* the stored document of a scheduler call: jobs "a" and "b", "a" due and
\* once at WedNine
SchedulerDocs ==
    {EmptyDict,
     [jobs |-> [j \in JobIds |-> IF j = "a"
                                 THEN JobOf(None, Some(RunAtZ), TRUE, TRUE)
                                 ELSE JobOf(Some(CronWeekday9), None, FALSE,
                                            TRUE)],
      timezone |-> "UTC"]}

SchedulerRequests ==
    TriggerArgs \cup InvalidArgs
    \cup {Plain(act, j) : act \in {"list", "check", "remove", "enable",
                                   "disable", "get", "frobnicate"},
                          j \in JobIdArgs}

SchedulerCalls ==
    {[request |-> a, env |-> e, doc |-> d] :
        a \in SchedulerRequests, e \in SchedulerEnvs, d \in SchedulerDocs}

\* the projects that exist remotely after the requests of log were met as env
\* says: a create that was answered with a project made it, a delete that
\* was answered unmade it
RemoteProjects(before, log, env) ==
    LET made == IF (\E i \in 1..Len(log) : log[i].op = "createProjectV2")
                   /\ env.create.kind = "ok" /\ "id" \in DOMAIN env.create.data
                THEN {env.create.data.id} ELSE {}
        unmade == {log[i].target : i \in {j \in 1..Len(log) :
                                            log[j].op = "deleteProjectV2"}}
    IN  (before \cup made) \ unmade

Remote(doc, log, made) == [doc |-> doc, log |-> log, projects |-> made]

InitTools ==
    /\ \/ \E c \in ProjectsCalls :
              /\ call = [action |-> "pending", tool |-> "projects",
                         request |-> c.request, env |-> c.env]
              /\ store = Remote(EmptyDict, <<>>, {})
       \/ \E c \in SchedulerCalls :
              /\ call = [action |-> "pending", tool |-> "scheduler",
                         request |-> c.request, env |-> c.env]
              /\ store = Remote(c.doc, <<>>, {})
    /\ now = WedNine
    /\ result = [status |-> "none", text |-> ""]
    /\ wrote = 0
    /\ running = NoneRunning

\* a call of projects() with this action is pending
Pending(action) ==
    /\ call.action = "pending"
    /\ call.tool = "projects"
    /\ call.request.action = action

\* the pending call returns out.result, having posted out.log
Returns(out) ==
    /\ result' = out.result
    /\ store' = Remote(store.doc, out.log,
                       RemoteProjects(store.projects, out.log, call.env))
    /\ wrote' = Len(out.log)
    /\ call' = [call EXCEPT !.action = call.request.action]
    /\ UNCHANGED <<now, running>>

CallListProjects ==
    /\ Pending("list_projects")
    /\ \E out \in {Boundary(ListProjects(call.request, call.env))} :
           Returns(out)

CallCreateProject ==
    /\ Pending("create_project")
    /\ \E out \in {Boundary(CreateProject(call.request, call.env))} :
           Returns(out)

CallGetProject ==
    /\ Pending("get_project")
    /\ \E out \in {Boundary(
           IF NoProject(call.request, call.env) THEN ProjectRequired
           ELSE GetProject(call.request,
                           ProjectId(call.request, call.env)[1], call.env))} :
           Returns(out)

CallAddItem ==
    /\ Pending("add_item")
    /\ \E out \in {Boundary(
           IF NoProject(call.request, call.env) THEN ProjectRequired
           ELSE AddItem(call.request,
                        ProjectId(call.request, call.env)[1], call.env))} :
           Returns(out)

CallAddIssue ==
    /\ Pending("add_issue")
    /\ \E out \in {Boundary(
           IF NoProject(call.request, call.env) THEN ProjectRequired
           ELSE AddByNumber(call.request,
                            ProjectId(call.request, call.env)[1], "issue",
                            call.request.issue_number, call.env))} :
           Returns(out)

CallAddPr ==
    /\ Pending("add_pr")
    /\ \E out \in {Boundary(
           IF NoProject(call.request, call.env) THEN ProjectRequired
           ELSE AddByNumber(call.request,
                            ProjectId(call.request, call.env)[1],
                            "pullRequest", call.request.pr_number, call.env))} :
           Returns(out)

CallUpdateItem ==
    /\ Pending("update_item")
    /\ \E out \in {Boundary(
           IF NoProject(call.request, call.env) THEN ProjectRequired
           ELSE UpdateItem(call.request,
                           ProjectId(call.request, call.env)[1], call.env))} :
           Returns(out)

CallCreateField ==
    /\ Pending("create_field")
    /\ \E out \in {Boundary(
           IF NoProject(call.request, call.env) THEN ProjectRequired
           ELSE CreateField(call.request,
                            ProjectId(call.request, call.env)[1], call.env))} :
           Returns(out)

CallGetProgress ==
    /\ Pending("get_progress")
    /\ \E out \in {Boundary(
           IF NoProject(call.request, call.env) THEN ProjectRequired
           ELSE GetProgress(call.request,
                            ProjectId(call.request, call.env)[1], call.env))} :
           Returns(out)

CallUnknown ==
    /\ Pending("frobnicate")
    /\ \E out \in {Boundary(
           IF NoProject(call.request, call.env) THEN ProjectRequired
           ELSE UnknownAction(call.request))} :
           Returns(out)

\* the pending call of scheduler() runs
CallScheduler ==
    /\ call.action = "pending"
    /\ call.tool = "scheduler"
    /\ \E out \in {schedulerFromTop(call.request, store.doc, now, call.env)} :
           /\ result' = out.result
           /\ store' = [store EXCEPT !.doc = out.store]
           /\ wrote' = out.wrote
    /\ call' = [call EXCEPT !.action = call.request.action]
    /\ UNCHANGED <<now, running>>

NextTools ==
    \/ CallListProjects
    \/ CallCreateProject
    \/ CallGetProject
    \/ CallAddItem
    \/ CallAddIssue
    \/ CallAddPr
    \/ CallUpdateItem
    \/ CallCreateField
    \/ CallGetProgress
    \/ CallUnknown
    \/ CallScheduler

SpecTools == InitTools /\ [][NextTools]_vars

----------------------------------------------------------------------------
(* _get_progress on the projects the project query can answer with *)

\* how many items a fetched project of the model has at most
MaxItems == 2

FieldsNoStatus ==
    << [id |-> "F_title", name |-> "Title", dataType |-> "TITLE"] >>

\* a field named Status that has no options member
FieldsPlainStatus ==
    << [id |-> "F_status", name |-> "Status", dataType |-> "TEXT"] >>

\* an item as the items connection gives it; status is the name of the
\* item's Status value, "" when it has none
Item(type, state, isArchived, status) ==
    [type |-> type, state |-> state, isArchived |-> isArchived,
     fieldValues |-> IF status = "" THEN <<>>
                     ELSE << [field |-> "Status", name |-> status] >>]

\* every type and state, archived or not, and some items with a Status
\* value: a declared option (Todo, Done) or a name no option has (Ghost)
ItemKinds ==
    {Item(ts[1], ts[2], ar, "") :
        ts \in {<<"ISSUE", "OPEN">>, <<"ISSUE", "CLOSED">>,
                <<"PULL_REQUEST", "OPEN">>, <<"PULL_REQUEST", "MERGED">>,
                <<"PULL_REQUEST", "CLOSED">>, <<"DRAFT_ISSUE", "">>},
        ar \in BOOLEAN}
    \cup {Item("ISSUE", "OPEN", ar, st) :
        ar \in BOOLEAN, st \in {"Todo", "Ghost"}}
    \cup {Item("DRAFT_ISSUE", "", FALSE, "Done")}

RECURSIVE ItemLists(_)
ItemLists(n) ==
    IF n = 0 THEN {<<>>}
    ELSE ItemLists(n - 1)
         \cup {Append(l, k) : l \in {m \in ItemLists(n - 1) : Len(m) = n - 1},
                              k \in ItemKinds}

\* 3 open issues, 1 closed issue, 2 merged pull requests and 1 archived
\* item, an open issue whose Status is Todo
ScenarioItems ==
    << Item("ISSUE", "OPEN", FALSE, "Todo"),
       Item("ISSUE", "OPEN", TRUE, "Todo"),
       Item("PULL_REQUEST", "MERGED", FALSE, ""),
       Item("ISSUE", "OPEN", FALSE, ""),
       Item("ISSUE", "CLOSED", FALSE, "Done"),
       Item("PULL_REQUEST", "MERGED", FALSE, "Done"),
       Item("ISSUE", "OPEN", FALSE, "Todo") >>

FetchedProjects ==
    {ProjectOf(f, l) : f \in {FieldsUsual, FieldsNoStatus, FieldsPlainStatus},
                       l \in ItemLists(MaxItems)}
    \cup {ProjectOf(FieldsUsual, ScenarioItems)}

\* how many items _get_progress asks for: _get_project(project_id,
\* items_limit=100) in the code, a handful here, enough for the projects of
\* FetchedProjects to be fetched whole
ItemsLimit == 8

\* items(first: $itemsLimit) { totalCount nodes }: the answer holds the first
\* items of the project up to the limit, and the count of all of them
FirstItems(items, limit) ==
    SubSeq(items, 1, IF Len(items) < limit THEN Len(items) ELSE limit)

ProjectFetched(fields, items, limit) ==
    [ProjectOf(fields, FirstItems(items, limit)) EXCEPT
        !.totalCount = Len(items)]

\* a project with one item more than the limit: open issues without a
\* Status value, the last item archived
ManyItems ==
    [i \in 1..(ItemsLimit + 1) |->
        Item("ISSUE", "OPEN", i = ItemsLimit + 1, "")]

\* the items of a remote project, with what _get_project answers about it
ProgressCalls ==
    {[all |-> p.items, project |-> ProjectFetched(p.fields, p.items, ItemsLimit)] :
        p \in FetchedProjects}
    \cup {[all |-> ManyItems,
           project |-> ProjectFetched(FieldsUsual, ManyItems, ItemsLimit)]}

InitProgress ==
    /\ \E c \in ProgressCalls :
           call = [action |-> "pending", project |-> c.project, all |-> c.all]
    /\ store = EmptyDict
    /\ now = WedNine
    /\ result = [status |-> "none", text |-> ""]
    /\ wrote = 0
    /\ running = NoneRunning

\* _get_progress runs on the fetched project
Progress ==
    /\ call.action = "pending"
    /\ result' = [status |-> "success", text |-> "Project Progress",
                  progress |-> _get_progress(call.project)]
    /\ call' = [call EXCEPT !.action = "get_progress"]
    /\ UNCHANGED <<store, now, wrote, running>>

NextProgress == Progress

SpecProgress == InitProgress /\ [][NextProgress]_vars

----------------------------------------------------------------------------
(* The bulk operations on lists of ids, each request meeting its own reply *)

\* how many ids one bulk call gets at most
MaxBulk == 3

BulkIds == {"x", "y"}

RECURSIVE SeqsUpTo(_, _)
SeqsUpTo(S, n) ==
    IF n = 0 THEN {<<>>}
    ELSE SeqsUpTo(S, n - 1)
         \cup {Append(l, x) : l \in {m \in SeqsUpTo(S, n - 1) : Len(m) = n - 1},
                              x \in S}

BulkReplies == Replies({[id |-> "PVTI_1"]}, EmptyDict)

\* a list of ids and as many replies
BulkCalls ==
    {c \in [ids : SeqsUpTo(BulkIds, MaxBulk),
            replies : SeqsUpTo(BulkReplies, MaxBulk)] :
        Len(c.ids) = Len(c.replies)}

InitBulk ==
    /\ \E c \in BulkCalls, op \in {"bulk_add_items", "bulk_update_status",
                                  "bulk_archive"} :
           call = [action |-> "pending", op |-> op, ids |-> c.ids,
                   replies |-> c.replies]
    /\ store = Remote(EmptyDict, <<>>, {})
    /\ now = WedNine
    /\ result = [status |-> "none", text |-> ""]
    /\ wrote = 0
    /\ running = NoneRunning

\* the bulk call returns its two lists
BulkReturns(out) ==
    /\ result' = [status |-> "returned", text |-> "",
                  success |-> out.success, failed |-> out.failed]
    /\ store' = [store EXCEPT !.log = out.log]
    /\ wrote' = Len(out.log)
    /\ call' = [call EXCEPT !.action = call.op]
    /\ UNCHANGED <<now, running>>

BulkAddItems ==
    /\ call.action = "pending" /\ call.op = "bulk_add_items"
    /\ \E out \in {_bulk_add_items("PVT_1", call.ids, call.replies)} :
           BulkReturns(out)

BulkUpdateStatus ==
    /\ call.action = "pending" /\ call.op = "bulk_update_status"
    /\ \E out \in {_bulk_update_status("PVT_1", call.ids, "F_status",
                                       "O_done", call.replies)} :
           BulkReturns(out)

BulkArchive ==
    /\ call.action = "pending" /\ call.op = "bulk_archive"
    /\ \E out \in {_bulk_archive("PVT_1", call.ids, call.replies)} :
           BulkReturns(out)

NextBulk == BulkAddItems \/ BulkUpdateStatus \/ BulkArchive

SpecBulk == InitBulk /\ [][NextBulk]_vars

----------------------------------------------------------------------------
(* update_item called several times on a project whose Status field is      *)
(* edited between the calls by somebody else: renamed, deleted, its options  *)
(* recreated or renamed.  store keeps the fields of the remote project and   *)
(* the requests of the last call; call keeps what every call so far was      *)
(* asked and what it did.                                                    *)

\* how many calls of update_item one behaviour has
MaxCalls == 3

\* the options the Status field can have: as created, with Done deleted and
\* created anew, with Done renamed
OptionLists ==
    { << [id |-> "O_todo", name |-> "Todo"], [id |-> "O_done", name |-> "Done"] >>,
      << [id |-> "O_todo", name |-> "Todo"], [id |-> "O_new", name |-> "Done"] >>,
      << [id |-> "O_todo", name |-> "Todo"],
         [id |-> "O_done", name |-> "Closed"] >> }

StatusNames == {"Status", "State"}

\* the place of the field with this id in the list, or 0
PlaceOfField(fields, id) ==
    IF \E i \in 1..Len(fields) : fields[i].id = id
    THEN CHOOSE i \in 1..Len(fields) : fields[i].id = id
    ELSE 0

\* the list without its i-th field
WithoutField(fields, i) ==
    [k \in 1..(Len(fields) - 1) |-> IF k < i THEN fields[k] ELSE fields[k + 1]]

\* the fields update_item resolves against when it assumes that the first
\* fetch of the project still holds
FetchedOnce(remote, first) == IF first = None THEN remote ELSE first[1]

\* project = _get_project(project_id, items_limit=1): the fields update_item
\* resolves against are those the remote project has at this call
Fetched(remote, first) == remote

\* what the requests of one update_item call meet
EnvOfCall(fields, fetch) ==
    [Calm EXCEPT !.project = IF fetch = "ok"
                             THEN OkReply(Some(ProjectOf(fields, <<>>)))
                             ELSE Failed(fetch, None)]

InitFields ==
    /\ store = [fields |-> FieldsUsual, log |-> <<>>]
    /\ call = [action |-> "none", request |-> Unset("none"), fetch |-> "ok",
               first |-> None, seen |-> <<>>]
    /\ now = WedNine
    /\ result = [status |-> "none", text |-> ""]
    /\ wrote = 0
    /\ running = NoneRunning

\* what the remote side does between calls leaves the tool's side alone
Edited(fields) ==
    /\ store' = [store EXCEPT !.fields = fields]
    /\ call' = [call EXCEPT !.action = "edited"]
    /\ UNCHANGED <<now, result, wrote, running>>

RenameField ==
    \E n \in StatusNames :
        LET i == PlaceOfField(store.fields, "F_status")
        IN  /\ i # 0
            /\ store.fields[i].name # n
            /\ Edited([store.fields EXCEPT ![i].name = n])

DeleteField ==
    LET i == PlaceOfField(store.fields, "F_status")
    IN  /\ i # 0
        /\ Edited(WithoutField(store.fields, i))

ChangeOptions ==
    \E o \in OptionLists :
        LET i == PlaceOfField(store.fields, "F_status")
        IN  /\ i # 0
            /\ store.fields[i].options # o
            /\ Edited([store.fields EXCEPT ![i].options = o])

\* one call of projects(action="update_item", field_value="Done")
UpdateItemAgain ==
    /\ Len(call.seen) < MaxCalls
    /\ \E name \in StatusNames, fetch \in {"ok", "transport"} :
         LET a   == [Unset("update_item") EXCEPT
                         !.project_id = Some("PVT_1"),
                         !.item_id = Some("PVTI_1"),
                         !.field_name = Some(name),
                         !.field_value = Some("Done")]
             out == Boundary(UpdateItem(a, "PVT_1",
                        EnvOfCall(Fetched(store.fields, call.first), fetch)))
             sent == {i \in 1..Len(out.log) :
                         out.log[i].op = "updateProjectV2ItemFieldValue"}
         IN  /\ result' = out.result
             /\ store' = [store EXCEPT !.log = out.log]
             /\ wrote' = Len(out.log)
             /\ call' = [action |-> "update_item", request |-> a,
                         fetch |-> fetch,
                         first |-> IF call.first = None /\ fetch = "ok"
                                   THEN Some(store.fields) ELSE call.first,
                         seen |-> Append(call.seen,
                             [name |-> name, status |-> out.result.status,
                              field |-> IF sent = {} THEN ""
                                        ELSE out.log[CHOOSE i \in sent : TRUE]
                                                 .field,
                              option |-> IF sent = {} THEN ""
                                         ELSE out.log[CHOOSE i \in sent : TRUE]
                                                  .text])]
             /\ UNCHANGED <<now, running>>

NextFields == UpdateItemAgain \/ RenameField \/ DeleteField \/ ChangeOptions

SpecFields == InitFields /\ [][NextFields]_vars

----------------------------------------------------------------------------
(* What the claims speak of *)

\* a step that is a call of scheduler() with this action (the clock stands
\* still during a call; every call leaves its arguments in call)
StepOf(action) == now' = now /\ call'.action = action

\* the ids of the jobs a check result reports as due
ReportedIds(r) ==
    IF "jobs_to_run" \in DOMAIN r THEN {x.job_id : x \in r.jobs_to_run} ELSE {}

\* the instant a run_at string denotes, by ISO 8601: the wall-clock time it
\* spells less its offset from UTC
UtcOffset(tz) == IF tz = "+05:00" THEN 5 * 3600 ELSE 0

Instant(run_at) == run_at.wall - UtcOffset(run_at.tz)

\* the due window of the specification: -1 <= (t - run_at) in minutes <= 60
InDueWindow(run_at, t) ==
    /\ run_at.iso
    /\ t - Instant(run_at) >= 0 - 60
    /\ t - Instant(run_at) <= 60 * 60

\* the number of whitespace-separated fields of a str
FieldCount(s) ==
    Cardinality({i \in 1..Len(s) : s[i] # " " /\ (i = 1 \/ s[i - 1] = " ")})

----------------------------------------------------------------------------
(* C1 *)

\* C1: check never reports a disabled job as due, whether its cron matches
\* now, its run_at window matches now, or both, and never retires it: the
\* disabled job is in the stored collection after the check as it was before.
C1_DisabledNeverDue ==
    [][StepOf("check") =>
        \A j \in DOMAIN JobsOf(store) :
            ~JobsOf(store)[j]["enabled"] =>
                /\ j \notin ReportedIds(result')
                /\ j \in DOMAIN JobsOf(store')
                /\ JobsOf(store')[j] = JobsOf(store)[j]]_vars

\* a check has run at a time at which a disabled once job of the collection
\* matches by its cron and by its run_at, next to an enabled job it reports
C1_Witness ==
    /\ call.action = "check"
    /\ result.status = "success"
    /\ result.at = now
    /\ result.jobs_to_run # {}
    /\ \E j \in DOMAIN JobsOf(store) :
          LET job == JobsOf(store)[j]
          IN  /\ ~job["enabled"]
              /\ "cron" \in DOMAIN job /\ _cron_matches(job["cron"], now)
              /\ "run_at" \in DOMAIN job /\ InDueWindow(job["run_at"], now)
              /\ "once" \in DOMAIN job

----------------------------------------------------------------------------
(* C2 *)

\* C2: an enabled once job whose run_at lies in the due window at now is
\* reported by check exactly once: the check that finds it reports it and
\* stores the collection without it; a check reports only jobs the stored
\* collection holds, and an id comes into the stored collection by an add of
\* that id only, so no later check reports it again.
C2_OnceReportedOnce ==
    [][/\ StepOf("check") =>
            /\ \A j \in DOMAIN JobsOf(store) :
                  LET job == JobsOf(store)[j]
                  IN  (/\ job["enabled"]
                       /\ "once" \in DOMAIN job /\ job["once"]
                       /\ "run_at" \in DOMAIN job
                       /\ InDueWindow(job["run_at"], now))
                      => /\ j \in ReportedIds(result')
                         /\ j \notin DOMAIN JobsOf(store')
            /\ ReportedIds(result') \subseteq DOMAIN JobsOf(store)
       /\ \A j \in JobIds :
            (j \notin DOMAIN JobsOf(store) /\ j \in DOMAIN JobsOf(store'))
            => (StepOf("add") /\ call'.job_id = Some(j))]_vars

\* a check has reported a once job and stored the collection without it,
\* while another job stays
C2_Witness ==
    /\ call.action = "check"
    /\ result.status = "success"
    /\ "removed" \in DOMAIN result
    /\ wrote = 1
    /\ \E j \in result.removed :
          /\ j \in ReportedIds(result)
          /\ j \notin DOMAIN JobsOf(store)
          /\ \E x \in result.jobs_to_run : x.job_id = j /\ x.once
    /\ JobsOf(store) # EmptyDict

----------------------------------------------------------------------------
(* C5 *)

\* every job of the collection has a cron and no run_at
CronOnly(jobs) ==
    \A j \in DOMAIN jobs : "cron" \in DOMAIN jobs[j] /\ "run_at" \notin DOMAIN jobs[j]

\* C5: on a collection of cron jobs only, a check leaves the stored
\* collection as it was and issues no write, and a second check at the same
\* now returns the same due jobs as the first and again changes nothing.
C5_CronCheckIdempotent ==
    [][(StepOf("check") /\ CronOnly(JobsOf(store))) =>
        /\ store' = store
        /\ wrote' = 0
        /\ LET again == CheckJobs(call', store', now', "ok", "ok")
           IN  /\ again.result.jobs_to_run = result'.jobs_to_run
               /\ again.store = store]_vars

\* a check of a collection of cron jobs only has reported a due job
C5_Witness ==
    /\ call.action = "check"
    /\ result.status = "success"
    /\ result.at = now
    /\ result.jobs_to_run # {}
    /\ result.removed = {}
    /\ JobsOf(store) # EmptyDict
    /\ CronOnly(JobsOf(store))

----------------------------------------------------------------------------
(* C3, C4 *)

\* C3: for every parseable run_at and every now, the run-at matcher returns
\* true exactly when d = now - run_at, in minutes, satisfies -1 <= d <= 60,
\* run_at being the instant the string denotes.
C3_RunAtWindow ==
    (call.action = "_run_at_matches" /\ call.run_at[1].iso) =>
        (result.matches <=> InDueWindow(call.run_at[1], now))

\* C4 as stated, for a run_at written in UTC (no offset, or Z): run_at =
\* now + 61 minutes is not due, run_at = now + 60 minutes is due, run_at =
\* now - 2 minutes is not due, run_at = now - 1 minute is due.
C4_BoundaryCasesAsStated ==
    (/\ call.action = "_run_at_matches"
     /\ call.run_at[1].iso
     /\ call.run_at[1].tz \in {"", "Z"}) =>
        LET at == Instant(call.run_at[1])
        IN  /\ at = now + 61 * 60 => ~result.matches
            /\ at = now + 60 * 60 => result.matches
            /\ at = now - 2 * 60 => ~result.matches
            /\ at = now - 1 * 60 => result.matches

\* C4, amended: for a run_at written in UTC (no offset, or Z), run_at =
\* now - 61 minutes is not due, run_at = now - 60 minutes is due, run_at =
\* now + 2 minutes is not due, run_at = now + 1 minute is due.
C4_BoundaryCases ==
    (/\ call.action = "_run_at_matches"
     /\ call.run_at[1].iso
     /\ call.run_at[1].tz \in {"", "Z"}) =>
        LET at == Instant(call.run_at[1])
        IN  /\ at = now - 61 * 60 => ~result.matches
            /\ at = now - 60 * 60 => result.matches
            /\ at = now + 2 * 60 => ~result.matches
            /\ at = now + 1 * 60 => result.matches

\* the matcher has found "2024-01-03T09:00:00Z" due sixty minutes after it
C4_Witness ==
    /\ call.action = "_run_at_matches"
    /\ call.run_at = Some(RunAtZ)
    /\ now = WedNine + 60 * 60
    /\ result.matches

----------------------------------------------------------------------------
(* C6 *)

\* an optional argument that is None or empty counts as not given
NoSeq(o) == o \in {None, Some(<<>>)}

NoStr(o) == o \in {None, Some("")}

\* the add inputs C6 names: neither cron nor run_at given, prompt empty or
\* missing, a cron that has not exactly five fields, an unparseable run_at
BadAddInput(a) ==
    \/ NoSeq(a.cron) /\ a.run_at = None
    \/ NoStr(a.prompt)
    \/ ~NoSeq(a.cron) /\ FieldCount(a.cron[1]) # 5
    \/ a.run_at # None /\ ~a.run_at[1].iso

\* C6: add returns an error and leaves the stored collection unchanged,
\* issuing no write, whenever neither cron nor run_at is given, or prompt is
\* empty or missing, or cron has not exactly five whitespace-separated
\* fields, or run_at is not parseable as a timestamp.
C6_AddRejects ==
    [][(StepOf("add") /\ BadAddInput(call')) =>
        /\ result'.status = "error"
        /\ store' = store
        /\ wrote' = 0]_vars

\* an add with a four-field cron next to a good run_at was refused while the
\* collection holds a job
C6_Witness ==
    /\ call.action = "add"
    /\ call.cron = Some(CronFourFields)
    /\ call.run_at = Some(RunAtZ)
    /\ ~NoStr(call.prompt)
    /\ result.status = "error"
    /\ wrote = 0
    /\ JobsOf(store) # EmptyDict

----------------------------------------------------------------------------
(* C7, C8 *)

JobFields == {"cron", "run_at", "once", "prompt", "system_prompt", "tools",
              "model", "max_tokens", "context"}

\* the caller set argument f to a value (not None, not empty, not 0; once to
\* true)
Given(a, f) ==
    CASE f = "cron"       -> ~NoSeq(a.cron)
      [] f = "run_at"     -> a.run_at # None
      [] f = "once"       -> a.once
      [] f = "max_tokens" -> a.max_tokens \notin {None, Some(0)}
      [] OTHER            -> ~NoStr(a[f])

\* the value the caller gave argument f
GivenValue(a, f) == IF f = "once" THEN a.once ELSE a[f][1]

\* what get(id) returns right after the call of this step
GetAfter == GetJob(Plain("get", call'.job_id), store', "ok").result

C8_AddReplaces ==
    [][(StepOf("add") /\ result'.status = "success") =>
        LET jid == call'.job_id[1]
            job == JobsOf(store')[jid]
        IN  /\ job["enabled"]
            /\ job["prompt"] = call'.prompt[1]
            /\ \A k \in DOMAIN job \ {"prompt", "enabled"} :
                  Given(call', k) /\ job[k] = GivenValue(call', k)
            /\ jid \in DOMAIN JobsOf(store) =>
                  \A k \in DOMAIN JobsOf(store)[jid] \ {"prompt", "enabled"} :
                      k \in DOMAIN job => Given(call', k)]_vars

\* an add has replaced a stored job by one that has a run_at and neither cron
\* nor any optional payload key
C8_Witness ==
    /\ call.action = "add"
    /\ result.status = "success"
    /\ result.text = "updated"
    /\ DOMAIN JobsOf(store)[call.job_id[1]] = {"prompt", "enabled", "run_at"}

----------------------------------------------------------------------------
(* C9, C10 *)

\* C9: remove, enable and disable of an id the collection lacks return an
\* error and issue no write, the stored collection staying as it was; of an
\* id it holds, they store a collection in which the id is absent, enabled,
\* or disabled.
C9_RemoveEnableDisable ==
    [][(/\ now' = now
        /\ call'.action \in {"remove", "enable", "disable"}
        /\ ~NoStr(call'.job_id)) =>
        LET jid == call'.job_id[1]
        IN  IF jid \notin DOMAIN JobsOf(store)
            THEN /\ result'.status = "error"
                 /\ wrote' = 0
                 /\ store' = store
            ELSE /\ result'.status = "success"
                 /\ wrote' = 1
                 /\ call'.action = "remove" => jid \notin DOMAIN JobsOf(store')
                 /\ call'.action = "enable" =>
                        /\ jid \in DOMAIN JobsOf(store')
                        /\ JobsOf(store')[jid]["enabled"]
                 /\ call'.action = "disable" =>
                        /\ jid \in DOMAIN JobsOf(store')
                        /\ ~JobsOf(store')[jid]["enabled"]]_vars

\* a disable has stored a job as disabled
C9_Witness ==
    /\ call.action = "disable"
    /\ result.status = "success"
    /\ wrote = 1
    /\ ~JobsOf(store)[call.job_id[1]]["enabled"]

\* C10: get returns an error for an id the collection lacks and the stored
\* job, as stored, for an id it holds; get and list issue no write and leave
\* the stored collection as it was; list of an empty collection succeeds
\* with a report that lists no job.
C10_GetListReadOnly ==
    [][(now' = now /\ call'.action \in {"get", "list"}) =>
        /\ store' = store
        /\ wrote' = 0
        /\ (call'.action = "get" /\ ~NoStr(call'.job_id)) =>
              IF call'.job_id[1] \in DOMAIN JobsOf(store)
              THEN /\ result'.status = "success"
                   /\ result'.job = JobsOf(store)[call'.job_id[1]]
              ELSE result'.status = "error" /\ "job" \notin DOMAIN result'
        /\ call'.action = "list" =>
              /\ result'.status = "success"
              /\ IF JobsOf(store) = EmptyDict
                 THEN "listed" \notin DOMAIN result'
                 ELSE result'.listed = JobsOf(store)]_vars

\* a get has returned a disabled job that has an optional payload key
C10_Witness ==
    /\ call.action = "get"
    /\ result.status = "success"
    /\ result.job = JobsOf(store)[call.job_id[1]]
    /\ ~result.job["enabled"]
    /\ DOMAIN result.job \cap OptFields # {}

----------------------------------------------------------------------------
(* C11 *)

\* the reference definition of a cron field: whether field f admits value v
FieldAdmits(f, v) ==
    CASE f.kind = "star"      -> TRUE
      [] f.kind = "step"      -> v % f.n = 0
      [] f.kind = "range"     -> f.a <= v /\ v <= f.b
      [] f.kind = "rangestep" -> f.a <= v /\ v <= f.b /\ (v - f.a) % f.n = 0
      [] f.kind = "list"      -> v \in {f.a, f.b, f.c}
      [] f.kind = "bare"      -> v = f.a

\* C11: for every value v, the cron field matcher returns what the reference
\* definition says: "*" matches every v, "*/N" iff v mod N = 0, "A-B" iff
\* A <= v <= B, "A-B/N" iff A <= v <= B and (v - A) mod N = 0, "A,B,C" iff v
\* is one of A, B, C, and a bare integer iff it equals v.
C11_FieldMatcher ==
    call.action = "_cron_field_matches" =>
        result.matches = Ok(FieldAdmits(call.field, call.value))

\* the matcher has matched a value inside a stepped range at a multiple of
\* the step that is not a multiple counted from zero: 3-9/2 at 7
C11_Witness ==
    /\ call.action = "_cron_field_matches"
    /\ call.field.kind = "rangestep"
    /\ call.field.text = <<"3", "-", "9", "/", "2">>
    /\ call.value = 7
    /\ result.matches = Ok(TRUE)

----------------------------------------------------------------------------
(* C12 *)

\* the day of the week of instant t, 0 = Sunday ... 6 = Saturday, read off
\* the calendar: 2024-01-01 is a Monday
CalendarWeekday(t) ==
    CASE t \div 86400 = 0 -> 1 [] t \div 86400 = 1 -> 2 [] t \div 86400 = 2 -> 3
      [] t \div 86400 = 3 -> 4 [] t \div 86400 = 4 -> 5 [] t \div 86400 = 5 -> 6
      [] t \div 86400 = 6 -> 0

\* all five fields of the expression admit the components of t
AllFiveAdmit(cron, t) ==
    /\ FieldAdmits(cron.fields[1], (t \div 60) % 60)
    /\ FieldAdmits(cron.fields[2], (t \div 3600) % 24)
    /\ FieldAdmits(cron.fields[3], (t \div 86400) + 1)
    /\ FieldAdmits(cron.fields[4], 1)
    /\ FieldAdmits(cron.fields[5], CalendarWeekday(t))

\* Saturday 2024-01-06 and Sunday 2024-01-07 at 09:00
SatNine == 5 * 86400 + 9 * 3600

SunNine == 6 * 86400 + 9 * 3600

\* C12: a cron expression matches now only if all five fields match the
\* minute, hour, day of month, month and day of week of now, the day of week
\* counted 0 = Sunday to 6 = Saturday; "0 9 * * 1-5" is due on a Wednesday at
\* 09:00 and not due on a Saturday or a Sunday at 09:00.
C12_CronAllFive ==
    call.action = "_cron_matches" =>
        /\ result.matches => AllFiveAdmit(call.cron, now)
        /\ (call.cron.text = CronWeekday9 /\ now = WedNine) => result.matches
        /\ (call.cron.text = CronWeekday9 /\ now \in {SatNine, SunNine})
               => ~result.matches

\* "0 9 * * 1-5" has matched on Wednesday 2024-01-03 at 09:00
C12_Witness ==
    /\ call.action = "_cron_matches"
    /\ call.cron.text = CronWeekday9
    /\ now = WedNine
    /\ result.matches

----------------------------------------------------------------------------
(* C13 *)

\* "0 9 * * 1-5" by its fields
Weekday9Spec ==
    CronOf(BareField(0), BareField(9), StarField, StarField, RangeField(1, 5))

\* the job has a well-formed trigger that matches t: the cron "0 9 * * 1-5"
\* with all five fields admitting t, or a run_at whose due window holds t
DueByGoodTrigger(job, t) ==
    \/ /\ "cron" \in DOMAIN job
       /\ job["cron"] = Weekday9Spec.text
       /\ AllFiveAdmit(Weekday9Spec, t)
    \/ /\ "run_at" \in DOMAIN job
       /\ InDueWindow(job["run_at"], t)

\* C13: a check never fails on a job whose cron or run_at is malformed
\* (wrong field count, a field that is no number, a step of zero, a
\* timestamp that does not parse): the malformed trigger counts as not
\* matching, and the check reports exactly the enabled jobs that have a
\* well-formed trigger matching now.
C13_MalformedNotDue ==
    [][StepOf("check") =>
        /\ result'.status = "success"
        /\ \A j \in DOMAIN JobsOf(store) :
              j \in ReportedIds(result')
                  <=> /\ JobsOf(store)[j]["enabled"]
                      /\ DueByGoodTrigger(JobsOf(store)[j], now)]_vars

\* a check at Wednesday 09:00 has reported a job next to an enabled job with
\* a step of zero in its cron and a run_at that does not parse, which it has
\* not reported
C13_Witness ==
    /\ call.action = "check"
    /\ result.status = "success"
    /\ now = WedNine
    /\ result.at = now
    /\ \E j \in DOMAIN JobsOf(store) :
          /\ JobsOf(store)[j]["enabled"]
          /\ "cron" \in DOMAIN JobsOf(store)[j]
          /\ JobsOf(store)[j]["cron"] = CronStepZero
          /\ "run_at" \in DOMAIN JobsOf(store)[j]
          /\ JobsOf(store)[j]["run_at"] = RunAtBad
          /\ j \notin ReportedIds(result)
          /\ ReportedIds(result) # {}

----------------------------------------------------------------------------
(* C14 *)

\* C14: check deletes a job only when the job is enabled, has once = true
\* and its run_at window holds now; so a job that is due only because its
\* cron matches stays, even with a run_at and once = true, and a job with no
\* once stays.
C14_DeletesOnlyOnceRunAt ==
    [][StepOf("check") =>
        \A j \in DOMAIN JobsOf(store) :
            LET job == JobsOf(store)[j]
            IN  /\ j \notin DOMAIN JobsOf(store') =>
                      /\ job["enabled"]
                      /\ "once" \in DOMAIN job /\ job["once"]
                      /\ "run_at" \in DOMAIN job
                      /\ InDueWindow(job["run_at"], now)
                /\ ("run_at" \in DOMAIN job /\ ~InDueWindow(job["run_at"], now))
                      => j \in DOMAIN JobsOf(store')
                /\ "once" \notin DOMAIN job => j \in DOMAIN JobsOf(store')]_vars

\* a check has reported a once job by its cron, before the window of its
\* run_at, and the job is still stored
C14_Witness ==
    /\ call.action = "check"
    /\ result.status = "success"
    /\ result.at = now
    /\ \E j \in DOMAIN JobsOf(store) :
          LET job == JobsOf(store)[j]
          IN  /\ j \in ReportedIds(result)
              /\ "cron" \in DOMAIN job
              /\ "once" \in DOMAIN job /\ job["once"]
              /\ "run_at" \in DOMAIN job
              /\ ~InDueWindow(job["run_at"], now)

----------------------------------------------------------------------------
(* C15 *)

\* C15: in every collection reached from the empty one by add, remove,
\* enable, disable and check calls, whether they succeed or fail, every
\* stored job has a prompt that is not empty and a cron or a run_at.
C15_PromptAndTrigger ==
    \A j \in DOMAIN JobsOf(store) :
        LET job == JobsOf(store)[j]
        IN  /\ "prompt" \in DOMAIN job /\ job["prompt"] # ""
            /\ \/ "cron" \in DOMAIN job /\ job["cron"] # <<>>
               \/ "run_at" \in DOMAIN job

\* an add with an empty cron and a run_at has stored a job that has the
\* run_at and no cron, next to another job
C15_Witness ==
    /\ call.action = "add"
    /\ call.cron = Some(<<>>)
    /\ result.status = "success"
    /\ "cron" \notin DOMAIN JobsOf(store)[call.job_id[1]]
    /\ "run_at" \in DOMAIN JobsOf(store)[call.job_id[1]]
    /\ Cardinality(DOMAIN JobsOf(store)) = 2

----------------------------------------------------------------------------
(* C16 *)

\* C16: in every collection reached from the empty one through add, remove,
\* enable, disable and check, every stored job has exactly one trigger, a
\* cron or a run_at and never both.
C16_ExactlyOneTrigger ==
    \A j \in DOMAIN JobsOf(store) :
        LET job == JobsOf(store)[j]
        IN  \/ "cron" \in DOMAIN job /\ "run_at" \notin DOMAIN job
            \/ "cron" \notin DOMAIN job /\ "run_at" \in DOMAIN job

----------------------------------------------------------------------------
(* C17 *)

\* which triggers a job has
TriggerKind(job) == {"cron", "run_at"} \cap DOMAIN job

\* C17: enable and disable change nothing but the enabled flag of the job
\* they name: its other fields, the other jobs and the rest of the document
\* are after the call what they were before; and the triggers of a stored
\* job change in no step but an add of its id.
C17_EnableDisableFrame ==
    [][/\ (now' = now /\ call'.action \in {"enable", "disable"}) =>
            /\ DOMAIN store' = DOMAIN store
            /\ \A k \in DOMAIN store \ {"jobs"} : store'[k] = store[k]
            /\ DOMAIN JobsOf(store') = DOMAIN JobsOf(store)
            /\ \A j \in DOMAIN JobsOf(store) :
                  /\ DOMAIN JobsOf(store')[j] = DOMAIN JobsOf(store)[j]
                  /\ \A f \in DOMAIN JobsOf(store)[j] :
                        (call'.job_id # Some(j) \/ f # "enabled")
                            => JobsOf(store')[j][f] = JobsOf(store)[j][f]
       /\ \A j \in DOMAIN JobsOf(store) \cap DOMAIN JobsOf(store') :
            TriggerKind(JobsOf(store')[j]) # TriggerKind(JobsOf(store)[j])
                => (StepOf("add") /\ call'.job_id = Some(j))]_vars

\* a disable has disabled a job that has a cron and a payload field, next to
\* a once job with a run_at
C17_Witness ==
    /\ call.action = "disable"
    /\ result.status = "success"
    /\ DOMAIN JobsOf(store) = JobIds
    /\ LET job == JobsOf(store)[call.job_id[1]]
       IN  /\ ~job["enabled"]
           /\ "cron" \in DOMAIN job
           /\ DOMAIN job \cap OptFields # {}
    /\ \E k \in JobIds \ {call.job_id[1]} :
          /\ "run_at" \in DOMAIN JobsOf(store)[k]
          /\ "once" \in DOMAIN JobsOf(store)[k]

----------------------------------------------------------------------------
(* C18 *)

\* C18 as stated: each record of check's due report carries the job's
\* identifier under the name id, its prompt and once, and each of
\* system_prompt, tools, model, max_tokens, context with the stored value
\* exactly when the stored job has that field, an optional field the job
\* lacks being left out of the record.
C18_DueRecordAsStated ==
    [][StepOf("check") =>
        \A x \in result'.jobs_to_run :
            /\ "id" \in DOMAIN x
            /\ x["id"] \in DOMAIN JobsOf(store)
            /\ "prompt" \in DOMAIN x
            /\ x["prompt"] = JobsOf(store)[x["id"]]["prompt"]
            /\ "once" \in DOMAIN x
            /\ \A f \in OptFields :
                  IF f \in DOMAIN JobsOf(store)[x["id"]]
                  THEN f \in DOMAIN x /\ x[f] = JobsOf(store)[x["id"]][f]
                  ELSE f \notin DOMAIN x]_vars

\* C18, amended: each record of check's due report carries the job's
\* identifier under the name job_id, its prompt, once (false when the job
\* has none), and all of system_prompt, tools, model, max_tokens, context:
\* the stored value when the stored job has the field, null when it lacks
\* it.  No record has any other field.
C18_DueRecord ==
    [][StepOf("check") =>
        \A x \in result'.jobs_to_run :
            /\ DOMAIN x = {"job_id", "prompt", "once"} \cup OptFields
            /\ x["job_id"] \in DOMAIN JobsOf(store)
            /\ LET job == JobsOf(store)[x["job_id"]]
               IN  /\ x["prompt"] = job["prompt"]
                   /\ x["once"] = ("once" \in DOMAIN job /\ job["once"])
                   /\ \A f \in OptFields :
                         x[f] = IF f \in DOMAIN job THEN Some(job[f])
                                ELSE None]_vars

\* a check has reported a job with its max_tokens and with null for the
\* system_prompt the job lacks
C18_Witness ==
    /\ call.action = "check"
    /\ result.status = "success"
    /\ \E x \in result.jobs_to_run :
          /\ x["job_id"] \in DOMAIN JobsOf(store)
          /\ "max_tokens" \in DOMAIN JobsOf(store)[x["job_id"]]
          /\ x["max_tokens"] = Some(JobsOf(store)[x["job_id"]]["max_tokens"])
          /\ "system_prompt" \notin DOMAIN JobsOf(store)[x["job_id"]]
          /\ x["system_prompt"] = None
          /\ ~x["once"]

----------------------------------------------------------------------------
(* C19 *)

\* caller p ends a call of this action in this step
Finishes(p, action) ==
    /\ running[p].pc = "read"
    /\ running'[p].pc = "done"
    /\ running[p].args.action = action

\* C19: the later write wins.  An add that returns success leaves, beside
\* the job it adds, exactly the jobs it read: a job another call stored
\* between the add's read and its write is discarded without notice.  So of
\* two overlapping adds of distinct new ids, both returning success, the
\* stored collection can hold only one.
C19_LaterWriteWins ==
    [][\A p \in Procs :
        Finishes(p, "add") =>
            LET id == running[p].args.job_id[1]
                read == JobsOf(running[p].schedules)
            IN  /\ running'[p].result.status = "success"
                /\ id \in DOMAIN JobsOf(store')
                /\ \A j \in JobIds \ {id} :
                      /\ j \in DOMAIN JobsOf(store') <=> j \in DOMAIN read
                      /\ j \in DOMAIN read => JobsOf(store')[j] = read[j]]_vars

\* two adds of cron jobs with distinct ids have both read the empty
\* collection and both returned success, and the collection holds one job
C19_Witness ==
    /\ \A p \in Procs :
          /\ running[p].pc = "done"
          /\ running[p].args.action = "add"
          /\ running[p].args.cron = Some(CronWeekday9)
          /\ running[p].result.status = "success"
          /\ JobsOf(running[p].schedules) = EmptyDict
    /\ running[1].args.job_id # running[2].args.job_id
    /\ Cardinality(DOMAIN JobsOf(store)) = 1

----------------------------------------------------------------------------
(* C20 *)

\* the ids a check result gives as retired
RetiredIds(r) == IF "removed" \in DOMAIN r THEN r.removed ELSE {}

\* C20: a check that retires a job writes the collection it read without
\* the retired jobs, so a job added between its read and its write is not
\* in the collection after the write; a check that retires no job writes
\* nothing and leaves the collection, a concurrent add included, as it is.
C20_CheckWrite ==
    [][\A p \in Procs :
        Finishes(p, "check") =>
            LET retired == RetiredIds(running'[p].result)
                read    == JobsOf(running[p].schedules)
            IN  IF retired = {}
                THEN wrote' = 0 /\ store' = store
                ELSE /\ wrote' = 1
                     /\ DOMAIN JobsOf(store') = DOMAIN read \ retired]_vars

\* a check has retired a job, an add of a cron job with a new id has read
\* the same collection as the check and returned success, and the new job is
\* not in the collection
C20_Witness ==
    \E p \in Procs, q \in Procs :
        /\ running[p].pc = "done"
        /\ running[p].args.action = "check"
        /\ RetiredIds(running[p].result) # {}
        /\ running[q].pc = "done"
        /\ running[q].args.action = "add"
        /\ running[q].args.cron = Some(CronWeekday9)
        /\ running[q].result.status = "success"
        /\ running[q].schedules = running[p].schedules
        /\ running[q].args.job_id[1] \notin DOMAIN JobsOf(running[p].schedules)
        /\ running[q].args.job_id[1] \notin DOMAIN JobsOf(store)

----------------------------------------------------------------------------
(* Claims about the projects tool and the boundary of both tools *)

\* a call of this tool with this action has returned
Returned(tool, action) == call.tool = tool /\ call.action = action

\* the operations of the requests the call posted, in order
OpsOf(log) == [i \in 1..Len(log) |-> log[i].op]

\* the call posted a request with this operation
Posted(op) == \E i \in 1..Len(store.log) : store.log[i].op = op

\* C21: no call of scheduler() or projects() raises past its boundary:
\* whatever the action (unknown ones included) and however the variable
\* store or the graph API fails (transport exception, non-success status,
\* error payload, missing token or repository), the call returns a result
\* whose status is success or error, with a text.
C21_NeverRaises ==
    call.action # "pending" =>
        /\ result.status \in {"success", "error"}
        /\ result.text # ""

\* update_item found the field and the option, and the mutation it posted
\* met a non-success HTTP status
C21_Witness ==
    /\ Returned("projects", "update_item")
    /\ call.env.set_field.kind = "http"
    /\ Posted("updateProjectV2ItemFieldValue")
    /\ result.status = "error"

\* the project list one lookup of list_projects yields: nothing when the
\* request fails or the login is unknown
Yields(reply) ==
    IF reply.kind = "ok" /\ reply.data # None THEN reply.data[1] ELSE <<>>

\* the list a result of list_projects shows
ListedIn(r) == IF "listed" \in DOMAIN r THEN r.listed ELSE <<>>

\* C22: list_projects looks the owner up as a user first and falls back to
\* the organization lookup whenever the user lookup fails or yields an
\* empty project list; it returns the first non-empty list obtained, an
\* empty list when both lookups fail or yield nothing, and never raises
\* for an unknown owner.
C22_ListFallsBack ==
    Returned("projects", "list_projects") /\ TruthyStr(call.request.owner) =>
        LET user == Yields(call.env.user_projects)
            org  == Yields(call.env.org_projects)
        IN  /\ result.status = "success"
            /\ ListedIn(result) = IF user # <<>> THEN user ELSE org
            /\ user = <<>> /\ call.env.org_projects.kind # "no_token"
                    => Posted("organization.projectsV2")
            /\ Len(store.log) >= 1 => store.log[1].op = "user.projectsV2"

\* the place of the first request with this operation in the call's log, 0
\* when there is none
PlaceOf(op) ==
    LET at == {i \in 1..Len(store.log) : store.log[i].op = op}
    IN  IF at = {} THEN 0 ELSE CHOOSE i \in at : \A j \in at : i <= j

\* the description argument as create_project passes it on
DescriptionOf(a) == IF a.description = None THEN "" ELSE a.description[1]

\* C23: create_project posts the description-setting mutation only when a
\* description was supplied and only after the create mutation succeeded;
\* when the create succeeds and the description update fails the call
\* returns an error, the created project exists remotely and no delete
\* mutation was posted.
C23_DescriptionAfterCreate ==
    Returned("projects", "create_project") =>
        /\ Posted("updateProjectV2") =>
               /\ DescriptionOf(call.request) # ""
               /\ call.env.create.kind = "ok"
               /\ PlaceOf("createProjectV2") # 0
               /\ PlaceOf("createProjectV2") < PlaceOf("updateProjectV2")
        /\ Posted("createProjectV2") /\ call.env.create.kind = "ok"
              /\ "id" \in DOMAIN call.env.create.data
              /\ DescriptionOf(call.request) # ""
              /\ call.env.update.kind # "ok"
               => /\ result.status = "error"
                  /\ call.env.create.data.id \in store.projects
        /\ ~Posted("deleteProjectV2")

\* the create succeeded, the update of the description was posted and met
\* an error payload
C23_Witness ==
    /\ Returned("projects", "create_project")
    /\ OpsOf(store.log) = <<"user", "createProjectV2", "updateProjectV2">>
    /\ call.env.update.kind = "errors"
    /\ result.status = "error"
    /\ store.projects = {"P1"}

\* a lookup of the owner's id that found the login
Resolves(reply) == reply.kind = "ok" /\ reply.data # None

\* C24: create_project with an owner that resolves neither as a user nor as
\* an organization, a remote error of both lookups included, returns an
\* error result and never posts the create-project mutation.
C24_UnknownOwnerNoCreate ==
    /\ Returned("projects", "create_project")
    /\ TruthyStr(call.request.owner) /\ TruthyStr(call.request.title)
    /\ ~Resolves(call.env.user) /\ ~Resolves(call.env.organization)
    => /\ result.status = "error"
       /\ ~Posted("createProjectV2")

\* the user lookup met a transport exception and the organization lookup
\* a non-success status
C24_Witness ==
    /\ Returned("projects", "create_project")
    /\ call.env.user.kind = "transport"
    /\ call.env.organization.kind = "http"
    /\ call.env.create.kind = "ok"
    /\ OpsOf(store.log) = <<"user", "organization">>
    /\ result.status = "error"
    /\ store.projects = {}

\* the lookup operation of add_issue and of add_pr
LookupOp(action) == IF action = "add_issue" THEN "issue" ELSE "pullRequest"

\* C25: add_issue and add_pr make the (owner, repo, number) lookup before
\* any add mutation; when the lookup returns no node id they return a
\* not-found error and post no add-item mutation.
C25_LookupBeforeAdd ==
    \A act \in {"add_issue", "add_pr"} :
        Returned("projects", act) =>
            /\ Posted("addProjectV2ItemById") =>
                   /\ PlaceOf(LookupOp(act)) = 1
                   /\ PlaceOf("addProjectV2ItemById") = 2
                   /\ store.log[1].repo = <<<<"o">>, <<"r">>>>
                   /\ store.log[1].number \in {0, 7}
            /\ Posted(LookupOp(act))
                  /\ call.env.node = OkReply([repository |-> TRUE,
                                              id |-> None])
                   => /\ result = Error("not found in repository")
                      /\ ~Posted("addProjectV2ItemById")

\* add_pr looked pull request 7 of o/r up, found none and stopped
C25_Witness ==
    /\ Returned("projects", "add_pr")
    /\ call.request.pr_number = Some(7)
    /\ call.env.node = OkReply([repository |-> TRUE, id |-> None])
    /\ call.env.add.kind = "ok"
    /\ OpsOf(store.log) = <<"pullRequest">>
    /\ result = Error("not found in repository")

\* update_item got its three arguments and the project query answered with
\* a project
FetchedProject ==
    /\ Returned("projects", "update_item")
    /\ TruthyStr(call.request.item_id)
    /\ TruthyStr(call.request.field_name)
    /\ call.request.field_value # None
    /\ call.env.project.kind = "ok"
    /\ call.env.project.data # None

\* the fields of the fetched project
FieldsFetched == call.env.project.data[1].fields

\* the field-value mutation the call posted (its place in the log is 2)
Mutation == store.log[PlaceOf("updateProjectV2ItemFieldValue")]

\* C26: update_item matches field_name against the names of the project's
\* fields by exact, case-sensitive equality; when no field matches it
\* returns an error that lists exactly the names of the project's fields
\* and posts no field-value mutation.
C26_FieldByExactName ==
    FetchedProject =>
        LET name   == call.request.field_name[1]
            equals == {i \in 1..Len(FieldsFetched) :
                          FieldsFetched[i].name = name}
        IN  /\ equals = {} =>
                   /\ result.status = "error"
                   /\ result.text = "Field not found. Available:"
                   /\ result.available = NamesOf(FieldsFetched)
                   /\ ~Posted("updateProjectV2ItemFieldValue")
            /\ Posted("updateProjectV2ItemFieldValue") =>
                   \E i \in equals : Mutation.field = FieldsFetched[i].id

\* field_name "status" against a project whose field is named "Status"
C26_Witness ==
    /\ FetchedProject
    /\ call.request.field_name = Some("status")
    /\ FieldsFetched = FieldsUsual
    /\ result.status = "error"
    /\ result.available = <<"Title", "Status", "Estimate", "Due">>
    /\ OpsOf(store.log) = <<"node">>

\* the field update_item resolved field_name to is a SINGLE_SELECT field
SelectFieldMatched ==
    /\ FetchedProject
    /\ \E i \in 1..Len(FieldsFetched) :
           /\ FieldsFetched[i].name = call.request.field_name[1]
           /\ \A j \in 1..(i - 1) :
                  FieldsFetched[j].name # call.request.field_name[1]
           /\ FieldsFetched[i].dataType = "SINGLE_SELECT"

\* the options of that field
OptionsMatched ==
    LET i == CHOOSE k \in 1..Len(FieldsFetched) :
                 /\ FieldsFetched[k].name = call.request.field_name[1]
                 /\ FieldsFetched[k].dataType = "SINGLE_SELECT"
    IN  FieldsFetched[i].options

\* C27: update_item on a SINGLE_SELECT field sends the id of the option
\* whose name equals field_value exactly, never the name itself; when no
\* option has that name it returns an error that lists the field's option
\* names verbatim and posts no mutation.
C27_OptionIdSent ==
    SelectFieldMatched =>
        LET value  == call.request.field_value[1]
            equals == {i \in 1..Len(OptionsMatched) :
                          OptionsMatched[i].name = value}
        IN  /\ equals = {} =>
                   /\ result.status = "error"
                   /\ result.text = "Option not found. Available:"
                   /\ result.available = NamesOf(OptionsMatched)
                   /\ ~Posted("updateProjectV2ItemFieldValue")
            /\ Posted("updateProjectV2ItemFieldValue") =>
                   /\ Mutation.type = "singleSelectOptionId"
                   /\ \E i \in equals : Mutation.text = OptionsMatched[i].id
                   /\ Mutation.text # value

\* field_value "Done" on Status: the mutation carries the id O_done
C27_Witness ==
    /\ SelectFieldMatched
    /\ FieldsFetched = FieldsCased
    /\ call.request.field_value = Some("Done")
    /\ Posted("updateProjectV2ItemFieldValue")
    /\ Mutation.field = "F_status"
    /\ Mutation.text = "O_done"
    /\ result.status = "success"

\* the items of the project get_progress ran on that are not archived and
\* have this type and one of these states
ActiveOf(type, states) ==
    {i \in 1..Len(call.project.items) :
        /\ ~call.project.items[i].isArchived
        /\ call.project.items[i].type = type
        /\ call.project.items[i].state \in states}

\* the items that are not archived and carry this Status value
ActiveWithStatus(name) ==
    {i \in 1..Len(call.project.items) :
        /\ ~call.project.items[i].isArchived
        /\ \E k \in 1..Len(call.project.items[i].fieldValues) :
               /\ call.project.items[i].fieldValues[k].field = "Status"
               /\ call.project.items[i].fieldValues[k].name = name}

ArchivedItems ==
    {i \in 1..Len(call.project.items) : call.project.items[i].isArchived}

\* C28: get_progress leaves every archived item out of all counts but
\* archived_items: issues.open, issues.closed, pull_requests.open, merged
\* and closed, drafts and every by_status bucket count only items that are
\* not archived, and issues.total = issues.open + issues.closed; 3 open
\* issues, 1 closed issue, 2 merged pull requests and 1 archived item give
\* issues.total = 4, issues.open = 3, pull_requests.merged = 2 and
\* archived_items = 1.
C28_ArchivedLeftOut ==
    call.action = "get_progress" =>
        LET p == result.progress
        IN  /\ p.summary.archived_items = Cardinality(ArchivedItems)
            /\ p.issues.open = Cardinality(ActiveOf("ISSUE", {"OPEN"}))
            /\ p.issues.closed = Cardinality(ActiveOf("ISSUE", {"CLOSED"}))
            /\ p.issues.total = p.issues.open + p.issues.closed
            /\ p.pull_requests.open
                   = Cardinality(ActiveOf("PULL_REQUEST", {"OPEN"}))
            /\ p.pull_requests.merged
                   = Cardinality(ActiveOf("PULL_REQUEST", {"MERGED"}))
            /\ p.pull_requests.closed
                   = Cardinality(ActiveOf("PULL_REQUEST", {"CLOSED"}))
            /\ p.drafts = Cardinality(ActiveOf("DRAFT_ISSUE", {""}))
            /\ \A name \in DOMAIN p.by_status :
                   p.by_status[name] = Cardinality(ActiveWithStatus(name))
            /\ call.project.items = ScenarioItems =>
                   /\ p.issues.total = 4
                   /\ p.issues.open = 3
                   /\ p.pull_requests.merged = 2
                   /\ p.summary.archived_items = 1

\* the scenario of the claim, whose archived item is an open issue with
\* Status Todo
C28_Witness ==
    /\ call.action = "get_progress"
    /\ call.project.items = ScenarioItems
    /\ ScenarioItems[2].isArchived /\ ScenarioItems[2].type = "ISSUE"
    /\ result.progress.issues.total = 4
    /\ result.progress.summary.archived_items = 1
    /\ result.progress.by_status["Todo"] = 2

\* the option names declared on the project's Status field
DeclaredOptions ==
    LET at == {i \in 1..Len(call.project.fields) :
                  call.project.fields[i].name = "Status"}
    IN  UNION {{call.project.fields[i].options[k].name :
                    k \in 1..Len(call.project.fields[i].options)} :
               i \in {j \in at : "options" \in DOMAIN call.project.fields[j]}}

\* C29: the key set of get_progress's by_status histogram is exactly the
\* set of option names declared on the project's Status field: every
\* declared option is a key (with 0 when unused) and no key is anything
\* but a declared option, whatever Status values the items carry.
C29_KeysAreDeclaredOptions ==
    call.action = "get_progress" =>
        DOMAIN result.progress.by_status = DeclaredOptions

\* the places of the input list whose request succeeded, and those whose
\* request raised
DoneAt == {i \in 1..Len(call.ids) : call.replies[i].kind = "ok"}

FailedAt == {i \in 1..Len(call.ids) : call.replies[i].kind # "ok"}

\* how many places of this set come at or before place i
RankIn(places, i) == Cardinality({j \in places : j <= i})

\* the id of a slot of the success list
SuccessId(slot) ==
    IF call.op = "bulk_add_items" THEN slot.content_id ELSE slot.item_id

----------------------------------------------------------------------------
(* The result envelope of the creating actions *)

\* the actions of projects() that create an entity, with the part of the text
\* that shows it
Creating ==
    [create_project |-> "project", add_item |-> "item", add_issue |-> "item",
     add_pr |-> "item", create_field |-> "field"]

\* a creating action of projects() returned success about an entity with an id
Created ==
    /\ call.tool = "projects"
    /\ call.action \in DOMAIN Creating
    /\ result.status = "success"
    /\ "id" \in DOMAIN result[Creating[call.action]]

NewId == result[Creating[call.action]].id

\* the keys of the returned dict apart from status and content, and of the
\* dict in content apart from text
StructuredFields ==
    LET e == Envelope(result)
    IN  {e[k] : k \in DOMAIN e \ {"status", "content"}}
        \cup {e.content[1][k] : k \in DOMAIN e.content[1] \ {"text"}}

\* C31: when create_project, add_item, add_issue, add_pr or create_field
\* succeeds, the id of the new entity is in the text of the result and is
\* also the value of a separate field of the returned dict.
C31_IdInTextAndField ==
    Created =>
        /\ Envelope(result).content[1].text[Creating[call.action]].id = NewId
        /\ \E v \in StructuredFields : v = NewId

----------------------------------------------------------------------------
(* C32 *)

\* C32: a check writes the collection at most once.  A check that retires
\* no job writes nothing and leaves the stored document as it is; a check
\* that retires one job or more writes once, and the collection it writes
\* lacks every retired id and keeps every other job, and the rest of the
\* document, unchanged.
C32_CheckWritesOnce ==
    [][StepOf("check") =>
        LET retired == RetiredIds(result')
        IN  /\ wrote' <= 1
            /\ retired = {} => wrote' = 0 /\ store' = store
            /\ retired # {} =>
                  /\ wrote' = 1
                  /\ retired \subseteq DOMAIN JobsOf(store)
                  /\ DOMAIN JobsOf(store') = DOMAIN JobsOf(store) \ retired
                  /\ \A j \in DOMAIN JobsOf(store') :
                        JobsOf(store')[j] = JobsOf(store)[j]
                  /\ \A k \in DOMAIN store \ {"jobs"} :
                        k \in DOMAIN store' /\ store'[k] = store[k]]_vars

\* a check has retired both jobs of the collection with one write
C32_Witness ==
    /\ call.action = "check"
    /\ RetiredIds(result) = JobIds
    /\ wrote = 1
    /\ JobsOf(store) = EmptyDict

----------------------------------------------------------------------------
(* C33 *)

\* the field update_item resolved field_name to: the first field of the
\* fetched project with that name
FieldMatched ==
    FieldsFetched[CHOOSE i \in 1..Len(FieldsFetched) :
                      /\ FieldsFetched[i].name = call.request.field_name[1]
                      /\ \A j \in 1..(i - 1) :
                             FieldsFetched[j].name # call.request.field_name[1]]

\* update_item resolved field_name to a field
SomeFieldMatched ==
    /\ FetchedProject
    /\ \E i \in 1..Len(FieldsFetched) :
           FieldsFetched[i].name = call.request.field_name[1]

\* the texts of the model that Python's float() accepts, with their values
Numerals == [x \in {"3", "10"} |-> IF x = "3" THEN 3 ELSE 10]

\* the field-value mutation reaches the wire unless the token is missing
MutationGoesOut == call.env.set_field.kind # "no_token"

\* C33: update_item chooses what it sends by the data type of the matched
\* field, and every data type has a case: SINGLE_SELECT sends a
\* singleSelectOptionId, NUMBER sends field_value as a number, DATE sends
\* the string as a date, any other type sends the string as text.  A
\* field_value that is no number gives, for a NUMBER field, an error result
\* and no mutation.
C33_DispatchOnType ==
    SomeFieldMatched =>
        LET value == call.request.field_value[1]
            type  == FieldMatched.dataType
            sent  == Posted("updateProjectV2ItemFieldValue")
        IN  /\ sent => /\ Mutation.target = call.request.item_id[1]
                       /\ Mutation.field = FieldMatched.id
            /\ (type = "SINGLE_SELECT" /\ sent) =>
                   Mutation.type = "singleSelectOptionId"
            /\ type = "NUMBER" =>
                   IF value \in DOMAIN Numerals
                   THEN /\ sent <=> MutationGoesOut
                        /\ sent => /\ Mutation.type = "number"
                                   /\ Mutation.number = Numerals[value]
                   ELSE ~sent /\ result.status = "error"
            /\ type = "DATE" =>
                   /\ sent <=> MutationGoesOut
                   /\ sent => Mutation.type = "date" /\ Mutation.text = value
            /\ type \notin {"SINGLE_SELECT", "NUMBER", "DATE"} =>
                   /\ sent <=> MutationGoesOut
                   /\ sent => Mutation.type = "text" /\ Mutation.text = value
            /\ (sent /\ call.env.set_field.kind = "ok") =>
                   result.status = "success"

\* "Done" for the NUMBER field Estimate: an error and only the project query
C33_Witness ==
    /\ SomeFieldMatched
    /\ FieldMatched.dataType = "NUMBER"
    /\ call.request.field_value = Some("Done")
    /\ result.status = "error"
    /\ OpsOf(store.log) = <<"node">>

----------------------------------------------------------------------------
(* C34 *)

\* C34: update_item remembers no field or option id from one call to the
\* next.  Each call resolves field_name and field_value against the fields
\* the project has when the call fetches them: a name no field has at that
\* time is reported not found with the names of that time, a name a field
\* has resolves to that field's id and to the id the option has at that
\* time, whatever earlier calls saw; a call whose fetch fails resolves
\* nothing.
C34_ResolvesAtOwnFetch ==
    [][(call'.action = "update_item" /\ Len(call'.seen) = Len(call.seen) + 1)
       =>
        LET fields == store.fields
            name   == call'.request.field_name[1]
            hits   == {i \in 1..Len(fields) : fields[i].name = name}
            did    == call'.seen[Len(call'.seen)]
            posted == \E i \in 1..Len(store'.log) :
                         store'.log[i].op = "updateProjectV2ItemFieldValue"
        IN  /\ store'.fields = fields
            /\ posted <=> did.field # ""
            /\ call'.fetch # "ok" => result'.status = "error" /\ ~posted
            /\ (call'.fetch = "ok" /\ hits = {}) =>
                   /\ result'.status = "error"
                   /\ result'.text = "Field not found. Available:"
                   /\ result'.available = NamesOf(fields)
                   /\ ~posted
            /\ (call'.fetch = "ok" /\ hits # {}) =>
                   LET f == fields[CHOOSE i \in hits : \A j \in hits : i <= j]
                       named == {k \in 1..Len(f.options) :
                                    f.options[k].name = "Done"}
                   IN  IF named = {}
                       THEN /\ result'.status = "error"
                            /\ result'.available = NamesOf(f.options)
                            /\ ~posted
                       ELSE /\ result'.status = "success"
                            /\ did.field = f.id
                            /\ \E k \in named : did.option = f.options[k].id]_vars

\* Status was set, then the field was renamed to State and Done recreated:
\* the second call does not find Status, the third resolves State to the
\* same field and Done to the new option id
C34_Witness ==
    /\ Len(call.seen) = 3
    /\ call.seen[1] = [name |-> "Status", status |-> "success",
                       field |-> "F_status", option |-> "O_done"]
    /\ call.seen[2] = [name |-> "Status", status |-> "error",
                       field |-> "", option |-> ""]
    /\ call.seen[3] = [name |-> "State", status |-> "success",
                       field |-> "F_status", option |-> "O_new"]
    /\ result.status = "success"

----------------------------------------------------------------------------
(* C35 *)

\* a step that is a call of scheduler() with one of the four actions that
\* change a job, for a job id
ChangesJob ==
    /\ call.action = "pending"
    /\ call'.tool = "scheduler"
    /\ call'.action \in {"add", "remove", "enable", "disable"}
    /\ call'.request.job_id # None

\* C35: add, remove, enable and disable of a job id leave every job with
\* another id as it is in the stored collection whenever they write, also
\* when the read of the variable failed and the write succeeds.
C35_OtherJobsKept ==
    [][ChangesJob =>
        \A j \in JobIds \ {call'.request.job_id[1]} :
            /\ j \in DOMAIN JobsOf(store.doc) <=> j \in DOMAIN JobsOf(store'.doc)
            /\ j \in DOMAIN JobsOf(store.doc) =>
                   JobsOf(store'.doc)[j] = JobsOf(store.doc)[j]]_vars

----------------------------------------------------------------------------
(* C36 *)

\* C36: when check returns a report that gives a once job as removed, the
\* stored collection no longer holds that job, also when the write of the
\* check returned a failure.
C36_RetiredIsPersisted ==
    (Returned("scheduler", "check") /\ result.status = "success") =>
        \A j \in RetiredIds(result) : j \notin DOMAIN JobsOf(store.doc)

----------------------------------------------------------------------------
(* C37 *)

\* C37: a run_at with a non-zero UTC offset is compared with now as the
\* instant it denotes, so two run_at strings that denote the same instant,
\* one of them with a non-zero offset, get the same answer from the matcher
\* at the same now.
C37_SameInstantSameAnswer ==
    [][(/\ call.action = "_run_at_matches"
        /\ call'.action = "_run_at_matches"
        /\ now' = now
        /\ call.run_at[1].iso /\ call'.run_at[1].iso
        /\ UtcOffset(call'.run_at[1].tz) # 0
        /\ Instant(call.run_at[1]) = Instant(call'.run_at[1]))
       => result'.matches = result.matches]_vars

----------------------------------------------------------------------------
(* C38 *)

\* every job but this one is after the step what it was before
OthersKept(jid) ==
    \A j \in JobIds \ {jid} :
        /\ j \in DOMAIN JobsOf(store) <=> j \in DOMAIN JobsOf(store')
        /\ j \in DOMAIN JobsOf(store) => JobsOf(store')[j] = JobsOf(store)[j]

----------------------------------------------------------------------------
(* C39 *)

\* C39: in every get_progress result each fetched item is counted in at most
\* one category, so archived_items + issues.total + pull_requests.total +
\* drafts is at most the number of fetched items; pull_requests.total is
\* open + merged + closed; and summary.active_items is the number of items
\* of the project that are not archived, and is not negative.
C39_CountsAddUp ==
    call.action = "get_progress" =>
        LET p == result.progress
        IN  /\ p.summary.archived_items + p.issues.total
                   + p.pull_requests.total + p.drafts
                   <= Len(call.project.items)
            /\ p.pull_requests.total = p.pull_requests.open
                   + p.pull_requests.merged + p.pull_requests.closed
            /\ p.summary.active_items
                   = Cardinality({i \in 1..Len(call.all) :
                                     ~call.all[i].isArchived})
            /\ p.summary.active_items >= 0
====
